---- MODULE Spec2Model ----
(***************************************************************************)
(* QuestScholar: the Paper Store (COLLECTED_PAPERS), the Critic Ledger     *)
(* (CRITIC_EVALUATIONS) and the tools of my_tools.py that act on them.     *)
(*                                                                         *)
(* Encoding of Python values                                               *)
(*   str      a tuple of one-character strings, "ab" is <<"a", "b">>; a    *)
(*            str the code only stores or compares whole (a source name,   *)
(*            an action, a rationale, a tag) is a TLA+ string              *)
(*   None     the tuple NoneValue (no str holds a four-character element)  *)
(*   dict     a function whose DOMAIN is the set of keys present           *)
(*   list     a tuple                                                      *)
(*   float    a score s is the integer 10*s, a weighted score the integer  *)
(*            100*s (0.4*4.5 + 0.3*4.0 + 0.3*5.0 = 4.5 is 450)             *)
(***************************************************************************)
EXTENDS Integers, Sequences, FiniteSets, TLC

VARIABLES
    papers,     \* COLLECTED_PAPERS, my_tools.py:33
    evals,      \* CRITIC_EVALUATIONS, my_tools.py:66
    op,         \* the tool call that produced this state (a search call
                \* taken apart: the call whose step did)
    arg,        \* the argument that call was given
    ret,        \* what that call returned (or that it raised)
    papers0,    \* COLLECTED_PAPERS when that call started
    evals0,     \* CRITIC_EVALUATIONS when that call started
    rerun,      \* TRUE iff that call and the one before it were both
                \* deduplicate_collection
    files,      \* the report files in the working directory
    files0,     \* those files when that call started
    doc,        \* the document that call wrote: its table of contents and
                \* its bibliography (NoDoc when it wrote none)
    phase,      \* where run_workflow stands: "idle" outside a run, else the
                \* sub-agent of ResearchSystem that is running
    team        \* the four search collaborators of ParallelResearchTeam: for
                \* each, whether its search call is running, the records it
                \* has still to append and those it has appended

vars == <<papers, evals, op, arg, ret, papers0, evals0, rerun, files, files0, doc, phase,
          team>>

(***************************************************************************)
(* Bounds of the model.                                                    *)
(***************************************************************************)
MaxPapers == 3      \* longest Paper Store explored
MaxPayload == 2     \* most entries in one evaluation payload

(***************************************************************************)
(* Python values and str methods.                                          *)
(***************************************************************************)
NoneValue == <<"None">>
Missing == <<"Missing">>    \* the attribute or key is absent from the raw result

SpaceChars == {" "}
PunctChars == {"-", ".", ":", ";", "&", "<", ">"}

\* str.isalnum on one character
isalnum(c) == c \notin SpaceChars \cup PunctChars

\* str.isspace on one character
isspace(c) == c \in SpaceChars

LowerChar(c) ==
    CASE c = "A" -> "a"
      [] c = "B" -> "b"
      [] c = "U" -> "u"
      [] OTHER -> c

\* str.lower
lower(s) == [i \in 1..Len(s) |-> LowerChar(s[i])]

RECURSIVE lstrip(_)
lstrip(s) == IF s # << >> /\ isspace(Head(s)) THEN lstrip(Tail(s)) ELSE s

RECURSIVE rstrip(_)
rstrip(s) ==
    IF s # << >> /\ isspace(s[Len(s)]) THEN rstrip(SubSeq(s, 1, Len(s) - 1)) ELSE s

\* str.strip
strip(s) == rstrip(lstrip(s))

\* str.split(): the maximal runs of non-whitespace characters, in order.  The
\* two halves are split apart; a run that crosses the middle is glued back
RECURSIVE split(_)
split(s) ==
    IF Len(s) = 0 THEN << >>
    ELSE IF Len(s) = 1 THEN (IF isspace(s[1]) THEN << >> ELSE <<s>>)
    ELSE LET m == Len(s) \div 2
             l == split(SubSeq(s, 1, m))
             r == split(SubSeq(s, m + 1, Len(s)))
         IN  IF ~isspace(s[m]) /\ ~isspace(s[m + 1])
             THEN SubSeq(l, 1, Len(l) - 1) \o <<l[Len(l)] \o r[1]>> \o Tail(r)
             ELSE l \o r

\* " ".join(words)
RECURSIVE join(_)
join(words) ==
    IF Len(words) = 0 THEN << >>
    ELSE IF Len(words) = 1 THEN words[1]
    ELSE LET m == Len(words) \div 2
         IN  join(SubSeq(words, 1, m)) \o <<" ">> \o join(SubSeq(words, m + 1, Len(words)))

\* dict.get(key, default)
Get(d, key, default) == IF key \in DOMAIN d THEN d[key] ELSE default

\* a list slice lst[:n]
Take(lst, n) == SubSeq(lst, 1, IF Len(lst) < n THEN Len(lst) ELSE n)

EmptyDict == << >>

\* no document was written
NoDoc == [kind |-> "none"]

\* the search collaborators, by the source their records carry, none of them
\* in a search call
Team == {"Semantic Scholar", "PubMed", "arXiv", "OpenAlex"}
TeamReady ==
    [c \in Team |-> [status |-> "ready", todo |-> << >>, added |-> << >>,
                     raises |-> FALSE, count |-> 0]]

\* f"{score:.1f}": a score in hundredths, rounded to tenths (no score drawn
\* lies halfway between two tenths)
Format1(score) == (score + 5) \div 10

(***************************************************************************)
(* Text Normalizer.                                                        *)
(***************************************************************************)
Placeholder == <<"N", "o", " ", "a", "b", "s", "t", "r", "a", "c", "t", " ",
                 "a", "v", "a", "i", "l", "a", "b", "l", "e", ".">>
Ellipsis == <<".", ".", ".">>

\* xml.sax.saxutils.escape on one character
EscapeChar(c) ==
    CASE c = "&" -> <<"&", "a", "m", "p", ";">>
      [] c = "<" -> <<"&", "l", "t", ";">>
      [] c = ">" -> <<"&", "g", "t", ";">>
      [] OTHER -> <<c>>

\* escape: every character replaced in place
RECURSIVE escape(_)
escape(s) ==
    IF Len(s) = 0 THEN << >>
    ELSE IF Len(s) = 1 THEN EscapeChar(s[1])
    ELSE LET m == Len(s) \div 2
         IN  escape(SubSeq(s, 1, m)) \o escape(SubSeq(s, m + 1, Len(s)))

\* the letters that open a tag name after "<"
TagLetters == {"a", "b"}

\* the entities the texts hold, each with the character it stands for
Entities ==
    {[ref |-> <<"&", "a", "m", "p", ";">>, char |-> "&"],
     [ref |-> <<"&", "l", "t", ";">>, char |-> "<"],
     [ref |-> <<"&", "g", "t", ";">>, char |-> ">"]}

\* s has the characters of ref from place i on
StartsWith(s, i, ref) ==
    /\ i + Len(ref) - 1 <= Len(s)
    /\ SubSeq(s, i, i + Len(ref) - 1) = ref

\* the least place from i on where s has a character of cs, 0 when there is none
Find(s, i, cs) ==
    LET at == {j \in i..Len(s) : s[j] \in cs}
    IN  IF at = {} THEN 0 ELSE CHOOSE j \in at : \A k \in at : j <= k

\* BeautifulSoup(text, "html.parser").get_text() from place i on: a tag, "<"
\* and a letter up to the next ">", is dropped, an entity becomes its
\* character, every other character is text
RECURSIVE get_text(_, _)
get_text(s, i) ==
    IF i > Len(s) THEN << >>
    ELSE IF Find(s, i, {"<", "&"}) = 0 THEN SubSeq(s, i, Len(s))
    ELSE IF Find(s, i, {"<", "&"}) > i
    THEN SubSeq(s, i, Find(s, i, {"<", "&"}) - 1) \o get_text(s, Find(s, i, {"<", "&"}))
    ELSE IF \E e \in Entities : StartsWith(s, i, e.ref)
    THEN LET e == CHOOSE e \in Entities : StartsWith(s, i, e.ref)
         IN  <<e.char>> \o get_text(s, i + Len(e.ref))
    ELSE IF s[i] = "<" /\ i < Len(s) /\ s[i + 1] \in TagLetters /\ Find(s, i, {">"}) # 0
    THEN get_text(s, Find(s, i, {">"}) + 1)
    ELSE <<s[i]>> \o get_text(s, i + 1)

\* two characters outside ASCII, each written as one element: U+FF1C, the
\* fullwidth less-than sign, and U+2014, the em dash
FullwidthLess == "U+FF1C"
EmDash == "U+2014"

\* unicodedata.normalize('NFKD', text): the fullwidth sign becomes "<"
normalize(s) == [i \in 1..Len(s) |-> IF s[i] = FullwidthLess THEN "<" ELSE s[i]]

\* the replacement table: the em dash becomes "--"
RECURSIVE replace(_)
replace(s) ==
    IF Len(s) = 0 THEN << >>
    ELSE IF Len(s) = 1 THEN (IF s[1] = EmDash THEN <<"-", "-">> ELSE s)
    ELSE LET m == Len(s) \div 2
         IN  replace(SubSeq(s, 1, m)) \o replace(SubSeq(s, m + 1, Len(s)))

clean_text(text) ==
    IF text = NoneValue \/ text = << >> THEN Placeholder
    ELSE escape(replace(normalize(get_text(text, 1))))

\* a bug: a text of exactly n words is cut as well
truncate_abstract_at_limit(text, n) ==
    IF text = NoneValue \/ text = << >> \/ text = Placeholder THEN text
    ELSE LET words == split(text)
         IN  IF Len(words) >= n THEN join(SubSeq(words, 1, n)) \o Ellipsis ELSE text

truncate_abstract(text, n) ==
    IF text = NoneValue \/ text = << >> \/ text = Placeholder THEN text
    ELSE LET words == split(text)
         IN  IF Len(words) > n THEN join(SubSeq(words, 1, n)) \o Ellipsis ELSE text

\* reconstruct_abstract: the index is the dict's items in insertion order, each
\* [word, positions]; list.sort is stable, so equal positions keep that order.
\* None and {} are both falsy and both written << >>
RECURSIVE WordPositions(_)
WordPositions(index) ==
    IF index = << >> THEN << >>
    ELSE [i \in 1..Len(Head(index).positions) |->
              [pos |-> Head(index).positions[i], word |-> Head(index).word]]
         \o WordPositions(Tail(index))

RECURSIVE InsertByPos(_, _)
InsertByPos(sorted, x) ==
    IF sorted = << >> THEN <<x>>
    ELSE IF sorted[Len(sorted)].pos <= x.pos THEN Append(sorted, x)
    ELSE Append(InsertByPos(SubSeq(sorted, 1, Len(sorted) - 1), x), sorted[Len(sorted)])

\* a bug: the pairs stay in the order of the index
SortByPosOfIndex(pairs) == pairs

RECURSIVE SortByPos(_)
SortByPos(pairs) ==
    IF pairs = << >> THEN << >>
    ELSE InsertByPos(SortByPos(SubSeq(pairs, 1, Len(pairs) - 1)), pairs[Len(pairs)])

reconstruct_abstract(inverted_index) ==
    IF Len(inverted_index) = 0 THEN Placeholder
    ELSE LET word_positions == SortByPos(WordPositions(inverted_index))
         IN  join([i \in 1..Len(word_positions) |-> word_positions[i].word])

(***************************************************************************)
(* Search collaborators: each appends paper_data records to the store.     *)
(* A raw result is what the API client hands the loop;  `raises` says the  *)
(* client raised once the given results had been processed.                *)
(***************************************************************************)
Untitled == <<"U", "n", "t", "i", "t", "l", "e", "d">>
Unknown == <<"U", "n", "k", "n", "o", "w", "n">>

\* the raw abstracts the search clients return in the runs explored, and
\* clean_text of each (worked out once, not at every call)
Words(n) == [i \in 1..(2 * n - 1) |-> IF i % 2 = 1 THEN "w" ELSE " "]
EvalAbstractWords == 150
RawTexts == {NoneValue, << >>, Words(2), Words(EvalAbstractWords),
             Words(EvalAbstractWords + 1), Placeholder, <<"q", "u", "i", "c", "k", " ", "a">>}
Cleaned == [text \in RawTexts |-> clean_text(text)]

\* getattr(obj, name, default) and dict.get(name, default): only an absent
\* attribute or key gives the default, a None that is present is returned
OrDefault(v, default) == IF v = Missing THEN default ELSE v

SSPaperData(paper) ==
    [title |-> OrDefault(paper.title, Untitled),
     authors |-> IF Len(paper.authors) = 0 THEN <<Unknown>> ELSE paper.authors,
     pub_year |-> paper.year,
     abstract |-> Cleaned[paper.abstract],
     source |-> "Semantic Scholar",
     citation_count |-> paper.citations,
     venue |-> paper.venue]

PubMedPaperData(art) ==
    [title |-> OrDefault(art.title, Untitled),
     authors |-> art.authors,
     pub_year |-> art.year,
     abstract |-> Cleaned[art.abstract],
     source |-> "PubMed",
     citation_count |-> 0,
     venue |-> art.venue]

ArXivPaperData(res) ==
    [title |-> res.title,
     authors |-> res.authors,
     pub_year |-> res.year,
     abstract |-> Cleaned[res.abstract],
     source |-> "arXiv",
     citation_count |-> 0,
     venue |-> <<"a", "r", "X", "i", "v">>]

OpenAlexPaperData(work) ==
    [title |-> OrDefault(work.title, NoneValue),
     authors |-> work.authors,
     pub_year |-> work.year,
     abstract |-> Cleaned[reconstruct_abstract(work.index)],
     source |-> "OpenAlex",
     citation_count |-> work.citations,
     venue |-> work.venue]

\* the loops of SemanticScholarTool.search and ArXivTool.search: keep the results
\* whose year is set and in range, stop once num_papers have been appended
RECURSIVE FilteredLoop(_, _, _, _, _)
FilteredLoop(results, start_year, end_year, num_papers, added) ==
    IF results = << >> THEN [added |-> added, broke |-> FALSE]
    ELSE LET r == Head(results)
         IN  IF r.year # 0 /\ start_year <= r.year /\ r.year <= end_year
             THEN IF Len(added) + 1 >= num_papers
                  THEN [added |-> Append(added, r), broke |-> TRUE]
                  ELSE FilteredLoop(Tail(results), start_year, end_year, num_papers,
                                    Append(added, r))
             ELSE FilteredLoop(Tail(results), start_year, end_year, num_papers, added)

Map(f(_), lst) == [i \in 1..Len(lst) |-> f(lst[i])]

\* the common frame of a search call: append, report the count or the error
SearchEffect(name, new, raised) ==
    /\ Len(papers) + Len(new) <= MaxPapers
    /\ papers' = papers \o new
    /\ ret' = IF raised THEN [kind |-> "error"] ELSE [kind |-> "added", count |-> Len(new)]
    /\ op' = name
    /\ arg' = << >>
    /\ rerun' = FALSE
    /\ papers0' = papers
    /\ evals0' = evals
    /\ files0' = files
    /\ doc' = NoDoc
    /\ UNCHANGED <<evals, files, phase, team>>

SemanticScholarSearch(results, raises, start_year, end_year, num_papers) ==
    LET loop == FilteredLoop(results, start_year, end_year, num_papers, << >>)
    IN  SearchEffect("SemanticScholarTool.search", Map(SSPaperData, loop.added),
                     raises /\ ~loop.broke)

PubMedSearch(results, raises) ==
    SearchEffect("PubMedTool.search", Map(PubMedPaperData, results), raises)

ArXivSearch(results, raises, start_year, end_year, num_papers) ==
    LET loop == FilteredLoop(results, start_year, end_year, num_papers, << >>)
    IN  SearchEffect("ArXivTool.search", Map(ArXivPaperData, loop.added),
                     raises /\ ~loop.broke)

OpenAlexSearch(results, raises) ==
    SearchEffect("OpenAlexTool.search", Map(OpenAlexPaperData, results), raises)

(***************************************************************************)
(* CriticTool.deduplicate_collection                                       *)
(***************************************************************************)
untitled == <<"u", "n", "t", "i", "t", "l", "e", "d">>

\* a bug: the filter lets the blanks through and nothing is stripped
CleanTitleKeepingBlanks(raw_title) ==
    SelectSeq(raw_title, LAMBDA c : isalnum(c) \/ isspace(c))

\* "".join(filter(str.isalnum, raw_title)).strip()
CleanTitle(raw_title) == strip(SelectSeq(raw_title, isalnum))

\* the for loop: None has no lower(), so a None title raises AttributeError
\* out of the loop, before COLLECTED_PAPERS[:] is assigned
RECURSIVE DedupLoop(_, _, _)
DedupLoop(rest, seen_titles, unique_papers) ==
    IF rest = << >> THEN [raised |-> FALSE, unique_papers |-> unique_papers]
    ELSE LET paper == Head(rest)
         IN  IF Get(paper, "title", << >>) = NoneValue
             THEN [raised |-> TRUE, unique_papers |-> unique_papers]
             ELSE LET clean_title == CleanTitle(lower(Get(paper, "title", << >>)))
                  IN  IF clean_title = << >> \/ clean_title = untitled
                      THEN DedupLoop(Tail(rest), seen_titles, Append(unique_papers, paper))
                      ELSE IF clean_title \notin seen_titles
                      THEN DedupLoop(Tail(rest), seen_titles \cup {clean_title},
                                     Append(unique_papers, paper))
                      ELSE DedupLoop(Tail(rest), seen_titles, unique_papers)

deduplicate_collection ==
    /\ LET loop == DedupLoop(papers, {}, << >>)
       IN  IF papers = << >>
           THEN /\ ret' = [kind |-> "empty"]
                /\ UNCHANGED papers
           ELSE IF loop.raised
           THEN /\ ret' = [kind |-> "raise", exc |-> "AttributeError"]
                /\ UNCHANGED papers
           ELSE /\ papers' = loop.unique_papers
                /\ ret' = [kind |-> "ok",
                           removed |-> Len(papers) - Len(loop.unique_papers),
                           remain |-> Len(loop.unique_papers)]
    /\ op' = "deduplicate_collection"
    /\ arg' = << >>
    /\ rerun' = (op = "deduplicate_collection")
    /\ papers0' = papers
    /\ evals0' = evals
    /\ files0' = files
    /\ doc' = NoDoc
    /\ UNCHANGED <<evals, files, phase, team>>

(***************************************************************************)
(* CriticTool.get_papers_for_evaluation                                    *)
(***************************************************************************)
EvalAuthors == 3

\* a bug: the record is passed on whole
ReducedViewWhole(paper) ==
    [title |-> paper.title,
     authors |-> paper.authors,
     pub_year |-> paper.pub_year,
     abstract |-> paper.abstract,
     source |-> paper.source,
     citation_count |-> Get(paper, "citation_count", 0),
     venue |-> Get(paper, "venue", Unknown)]

ReducedView(paper) ==
    [title |-> paper.title,
     authors |-> Take(paper.authors, EvalAuthors),
     pub_year |-> paper.pub_year,
     abstract |-> truncate_abstract(paper.abstract, EvalAbstractWords),
     source |-> paper.source,
     citation_count |-> Get(paper, "citation_count", 0),
     venue |-> Get(paper, "venue", Unknown)]

\* a bug: the empty store gets the error marker beside an empty listing
PapersForEvaluationAlwaysListing(store) ==
    IF store = << >>
    THEN [error |-> "No papers available for evaluation", total_papers |-> 0, papers |-> << >>]
    ELSE [total_papers |-> Len(store), papers |-> Map(ReducedView, store)]

\* the object json.dumps serialises
PapersForEvaluation(store) ==
    IF store = << >> THEN [error |-> "No papers available for evaluation"]
    ELSE LET papers_for_eval == Map(ReducedView, store)
         IN  [total_papers |-> Len(papers_for_eval), papers |-> papers_for_eval]

get_papers_for_evaluation ==
    /\ ret' = PapersForEvaluation(papers)
    /\ op' = "get_papers_for_evaluation"
    /\ arg' = << >>
    /\ rerun' = FALSE
    /\ papers0' = papers
    /\ evals0' = evals
    /\ files0' = files
    /\ doc' = NoDoc
    /\ UNCHANGED <<papers, evals, files, phase, team>>

(***************************************************************************)
(* CriticTool.evaluate_papers                                              *)
(*                                                                         *)
(* The argument is the text handed to json.loads:                          *)
(*   [kind |-> "invalid"]   text that is not JSON (JSONDecodeError)        *)
(*   [kind |-> "scalar"]    JSON that is a number: iterating it raises     *)
(*   [kind |-> "list", items |-> ...]   a JSON array                       *)
(* An item is a dict, or [nondict |-> TRUE] for a JSON string or number,   *)
(* which has no get().  The scores of the payloads explored are numbers.   *)
(***************************************************************************)
DefaultScore == 30

IsDict(eval_item) == "nondict" \notin DOMAIN eval_item

\* line 264 raises AttributeError: the item has no get(), or paper_title is null
ItemRaises(eval_item) ==
    \/ ~IsDict(eval_item)
    \/ Get(eval_item, "paper_title", << >>) = NoneValue

\* a bug: the ledger is keyed by the letters and digits of the title
TitleKeyOfCleanTitle(eval_item) == CleanTitle(lower(Get(eval_item, "paper_title", << >>)))

TitleKey(eval_item) == strip(lower(Get(eval_item, "paper_title", << >>)))

\* a bug: an overall_score the payload supplies is trusted
OverallScoreTrusted(eval_item) ==
    IF "overall_score" \in DOMAIN eval_item THEN eval_item.overall_score
    ELSE Get(eval_item, "relevance_score", DefaultScore) * 4 +
         Get(eval_item, "methodological_soundness", DefaultScore) * 3 +
         Get(eval_item, "impact_score", DefaultScore) * 3

OverallScore(eval_item) ==
    Get(eval_item, "relevance_score", DefaultScore) * 4 +
    Get(eval_item, "methodological_soundness", DefaultScore) * 3 +
    Get(eval_item, "impact_score", DefaultScore) * 3

\* a bug: a missing sub-score defaults to 0 and a missing action to "exclude"
EvaluationRecordOtherDefaults(eval_item) ==
    [relevance_score |-> Get(eval_item, "relevance_score", 0),
     methodological_soundness |-> Get(eval_item, "methodological_soundness", 0),
     impact_score |-> Get(eval_item, "impact_score", 0),
     redundancy_flag |-> Get(eval_item, "redundancy_flag", FALSE),
     flags |-> Get(eval_item, "flags", << >>),
     recommended_action |-> Get(eval_item, "recommended_action", "exclude"),
     rationale |-> Get(eval_item, "rationale", ""),
     overall_score |-> OverallScore(eval_item)]

EvaluationRecord(eval_item) ==
    [relevance_score |-> Get(eval_item, "relevance_score", DefaultScore),
     methodological_soundness |-> Get(eval_item, "methodological_soundness", DefaultScore),
     impact_score |-> Get(eval_item, "impact_score", DefaultScore),
     redundancy_flag |-> Get(eval_item, "redundancy_flag", FALSE),
     flags |-> Get(eval_item, "flags", << >>),
     recommended_action |-> Get(eval_item, "recommended_action", "include"),
     rationale |-> Get(eval_item, "rationale", ""),
     overall_score |-> OverallScore(eval_item)]

\* a bug: a key the ledger already holds is not overwritten
StoreKeepFirst(ledger, title, record) ==
    [k \in DOMAIN ledger \cup {title} |-> IF k \in DOMAIN ledger THEN ledger[k] ELSE record]

\* CRITIC_EVALUATIONS[title] = {...}
Store(ledger, title, record) ==
    [k \in DOMAIN ledger \cup {title} |-> IF k = title THEN record ELSE ledger[k]]

\* the for loop over evals: an item that raises ends the loop where it stands
RECURSIVE EvaluateLoop(_, _, _)
EvaluateLoop(rest, ledger, count) ==
    IF rest = << >> THEN [raised |-> FALSE, ledger |-> ledger, count |-> count]
    ELSE LET eval_item == Head(rest)
         IN  IF ItemRaises(eval_item)
             THEN [raised |-> TRUE, ledger |-> ledger, count |-> count]
             ELSE EvaluateLoop(Tail(rest),
                               Store(ledger, TitleKey(eval_item), EvaluationRecord(eval_item)),
                               count + 1)

\* a bug: the ledger is reset before the payload is parsed
EvaluateResetFirst(evaluations, ledger) ==
    IF evaluations.kind = "invalid"
    THEN [ledger |-> EmptyDict, ret |-> [kind |-> "error", what |-> "Invalid JSON format"]]
    ELSE IF evaluations.kind = "scalar"
    THEN [ledger |-> EmptyDict, ret |-> [kind |-> "error", what |-> "TypeError"]]
    ELSE LET loop == EvaluateLoop(evaluations.items, EmptyDict, 0)
         IN  IF loop.raised
             THEN [ledger |-> loop.ledger,
                   ret |-> [kind |-> "error", what |-> "AttributeError"]]
             ELSE [ledger |-> loop.ledger, ret |-> [kind |-> "ok", count |-> loop.count]]

\* the ledger and the return value of evaluate_papers(evaluations)
Evaluate(evaluations, ledger) ==
    IF evaluations.kind = "invalid"
    THEN [ledger |-> ledger, ret |-> [kind |-> "error", what |-> "Invalid JSON format"]]
    ELSE IF evaluations.kind = "scalar"
    THEN [ledger |-> ledger, ret |-> [kind |-> "error", what |-> "TypeError"]]
    ELSE LET loop == EvaluateLoop(evaluations.items, ledger, 0)
         IN  IF loop.raised
             THEN [ledger |-> loop.ledger,
                   ret |-> [kind |-> "error", what |-> "AttributeError"]]
             ELSE [ledger |-> loop.ledger, ret |-> [kind |-> "ok", count |-> loop.count]]

evaluate_papers(evaluations) ==
    /\ evals' = Evaluate(evaluations, evals).ledger
    /\ ret' = Evaluate(evaluations, evals).ret
    /\ op' = "evaluate_papers"
    /\ arg' = evaluations
    /\ rerun' = FALSE
    /\ papers0' = papers
    /\ evals0' = evals
    /\ files0' = files
    /\ doc' = NoDoc
    /\ UNCHANGED <<papers, files, phase, team>>

(***************************************************************************)
(* Report Composer: PDFReportTool.generate_report and                      *)
(* HTMLReportTool.generate_html_report.                                    *)
(*                                                                         *)
(* Both join the store with the ledger, rank and filter, each with its own *)
(* copy of the code; the join writes critic_* fields into the records of   *)
(* the store itself.  executive_summary and subject only reach the text    *)
(* that is rendered and are left out.  What a successful call reports is   *)
(*   [kind |-> "generated", file, papers, rendered (, excluded)]           *)
(* where `papers` and `excluded` are the counts of the status message      *)
(* (`excluded` is only there when positive) and `rendered` is the paper    *)
(* list written to the file.  A critic_rank is in hundredths.              *)
(***************************************************************************)
NeutralRank == 300
PdfFile == "executive_summary.pdf"
HtmlFile == "executive_summary.html"

\* d[k] = v
Put(d, k, v) == [x \in DOMAIN d \cup {k} |-> IF x = k THEN v ELSE d[x]]

\* tuple comparison a < b of two (critic_rank, citation_count) keys
KeyLess(a, b) == a[1] < b[1] \/ (a[1] = b[1] /\ a[2] < b[2])

\* list.sort(key=..., reverse=True) on the list of [key, item]: descending and
\* stable, an element goes behind every element whose key is not less
RECURSIVE InsertReverse(_, _)
InsertReverse(sorted, x) ==
    IF Len(sorted) = 0 THEN <<x>>
    ELSE IF ~KeyLess(sorted[Len(sorted)].key, x.key) THEN Append(sorted, x)
    ELSE Append(InsertReverse(SubSeq(sorted, 1, Len(sorted) - 1), x), sorted[Len(sorted)])

\* a bug: the list is sorted on the rank alone
RECURSIVE SortReverseByRank(_)
SortReverseByRank(keyed) ==
    IF Len(keyed) = 0 THEN << >>
    ELSE InsertReverse(SortReverseByRank(SubSeq(keyed, 1, Len(keyed) - 1)),
                       [key |-> <<keyed[Len(keyed)].key[1], 0>>,
                        item |-> keyed[Len(keyed)].item])

RECURSIVE SortReverse(_)
SortReverse(keyed) ==
    IF Len(keyed) = 0 THEN << >>
    ELSE InsertReverse(SortReverse(SubSeq(keyed, 1, Len(keyed) - 1)), keyed[Len(keyed)])

\* p.get('critic_action') != 'exclude'
NotExcluded(p) == Get(p, "critic_action", "None") # "exclude"

\* the status message of a report that was written
StatusMessage(file, included_papers, excluded_count) ==
    LET summary_msg == [kind |-> "generated", file |-> file,
                        papers |-> Len(included_papers), rendered |-> included_papers]
    IN  IF excluded_count > 0 THEN Put(summary_msg, "excluded", excluded_count)
        ELSE summary_msg

\* a bug: the critic fields are put on every record, duplicates included
RECURSIVE PdfJoinLoopOnAll(_, _, _, _, _)
PdfJoinLoopOnAll(store, ledger, i, seen, unique_papers) ==
    IF i > Len(store)
    THEN [raised |-> FALSE, store |-> store, unique_papers |-> unique_papers]
    ELSE IF store[i].title = NoneValue
    THEN [raised |-> TRUE, store |-> store, unique_papers |-> unique_papers]
    ELSE LET key == strip(lower(store[i].title))
             p == IF key \in DOMAIN ledger
                  THEN Put(Put(Put(store[i], "critic_evaluation", ledger[key]),
                               "critic_rank", ledger[key].overall_score),
                           "critic_action", ledger[key].recommended_action)
                  ELSE Put(Put(store[i], "critic_rank", NeutralRank),
                           "critic_action", "include")
         IN  IF key \in seen
             THEN PdfJoinLoopOnAll([store EXCEPT ![i] = p], ledger, i + 1, seen,
                                   unique_papers)
             ELSE PdfJoinLoopOnAll([store EXCEPT ![i] = p], ledger, i + 1,
                                   seen \cup {key}, Append(unique_papers, p))

\* generate_report, the for loop: store is COLLECTED_PAPERS with the records
\* joined so far; a None title raises AttributeError out of the tool
RECURSIVE PdfJoinLoop(_, _, _, _, _)
PdfJoinLoop(store, ledger, i, seen, unique_papers) ==
    IF i > Len(store)
    THEN [raised |-> FALSE, store |-> store, unique_papers |-> unique_papers]
    ELSE IF store[i].title = NoneValue
    THEN [raised |-> TRUE, store |-> store, unique_papers |-> unique_papers]
    ELSE LET key == strip(lower(store[i].title))
             p == IF key \in DOMAIN ledger
                  THEN Put(Put(Put(store[i], "critic_evaluation", ledger[key]),
                               "critic_rank", ledger[key].overall_score),
                           "critic_action", ledger[key].recommended_action)
                  ELSE Put(Put(store[i], "critic_rank", NeutralRank),
                           "critic_action", "include")
         IN  IF key \in seen
             THEN PdfJoinLoop(store, ledger, i + 1, seen, unique_papers)
             ELSE PdfJoinLoop([store EXCEPT ![i] = p], ledger, i + 1, seen \cup {key},
                              Append(unique_papers, p))

\* generate_report up to excluded_count
PdfCompose(store, ledger) ==
    LET loop == PdfJoinLoop(store, ledger, 1, {}, << >>)
        keyed == [i \in 1..Len(loop.unique_papers) |->
                     [key |-> <<Get(loop.unique_papers[i], "critic_rank", 0),
                                Get(loop.unique_papers[i], "citation_count", 0)>>,
                      item |-> loop.unique_papers[i]]]
        sorted == SortReverse(keyed)
        unique_papers == [i \in 1..Len(sorted) |-> sorted[i].item]
        included_papers == SelectSeq(unique_papers, NotExcluded)
    IN  [raised |-> loop.raised, store |-> loop.store,
         included_papers |-> included_papers,
         excluded_count |-> Len(unique_papers) - Len(included_papers)]

\* a bug: the stars are chosen on the rank as it is shown, to one decimal
PdfTocEntryOnShownRank(i, paper) ==
    LET has_eval == "critic_evaluation" \in DOMAIN paper
        score == Get(paper, "critic_rank", NeutralRank)
        prefix == IF Format1(score) >= 45 THEN 2 ELSE IF Format1(score) >= 40 THEN 1 ELSE 0
        toc_entry == [number |-> i, stars |-> prefix,
                      title |-> Take(paper.title, 80) \o Ellipsis]
    IN  IF has_eval THEN Put(toc_entry, "rank", Format1(score)) ELSE toc_entry

\* generate_report, one entry of the table of contents: the stars of prefix,
\* the first 80 characters of the title (the titles drawn hold no bracket to
\* remove) and, for a paper with an evaluation, the rank
PdfTocEntry(i, paper) ==
    LET has_eval == "critic_evaluation" \in DOMAIN paper
        score == Get(paper, "critic_rank", NeutralRank)
        prefix == IF score >= 450 THEN 2 ELSE IF score >= 400 THEN 1 ELSE 0
        toc_entry == [number |-> i, stars |-> prefix,
                      title |-> Take(paper.title, 80) \o Ellipsis]
    IN  IF has_eval THEN Put(toc_entry, "rank", Format1(score)) ELSE toc_entry

\* a bug: the labels of the title line are chosen without asking for an
\* evaluation, and the assessment label has three buckets
PdfBibEntryThreeBuckets(i, paper) ==
    LET has_eval == "critic_evaluation" \in DOMAIN paper
        score == Get(paper, "critic_rank", NeutralRank)
        title_text ==
            IF score >= 450
            THEN [anchor |-> i, stars |-> 2, label |-> "EXCEPTIONAL", title |-> paper.title]
            ELSE IF score >= 400
            THEN [anchor |-> i, stars |-> 1, label |-> "HIGHLY RATED", title |-> paper.title]
            ELSE [anchor |-> i, stars |-> 0, label |-> "", number |-> i,
                  title |-> paper.title]
        overall_score == paper.critic_evaluation.overall_score
        score_label == IF overall_score >= 450 THEN "EXCEPTIONAL"
                       ELSE IF overall_score >= 400 THEN "EXCELLENT"
                       ELSE "ACCEPTABLE"
    IN  IF has_eval
        THEN [title_text |-> title_text, score_label |-> score_label]
        ELSE [title_text |-> title_text]

\* generate_report, one entry of the bibliography: the title line (stars and
\* label, or the number) and, for a paper with an evaluation, the label of
\* the critic assessment line
PdfBibEntry(i, paper) ==
    LET has_eval == "critic_evaluation" \in DOMAIN paper
        score == Get(paper, "critic_rank", NeutralRank)
        title_text ==
            IF has_eval /\ score >= 450
            THEN [anchor |-> i, stars |-> 2, label |-> "EXCEPTIONAL", title |-> paper.title]
            ELSE IF has_eval /\ score >= 400
            THEN [anchor |-> i, stars |-> 1, label |-> "HIGHLY RATED", title |-> paper.title]
            ELSE [anchor |-> i, stars |-> 0, label |-> "", number |-> i,
                  title |-> paper.title]
        overall_score == paper.critic_evaluation.overall_score
        score_label == IF overall_score >= 450 THEN "EXCEPTIONAL"
                       ELSE IF overall_score >= 400 THEN "EXCELLENT"
                       ELSE IF overall_score >= 350 THEN "GOOD"
                       ELSE "ACCEPTABLE"
    IN  IF has_eval
        THEN [title_text |-> title_text, score_label |-> score_label]
        ELSE [title_text |-> title_text]

\* generate_report, the story from the table of contents on
PdfDocument(included_papers) ==
    [kind |-> "pdf",
     toc |-> [i \in 1..Len(included_papers) |-> PdfTocEntry(i, included_papers[i])],
     bibliography |->
         [i \in 1..Len(included_papers) |-> PdfBibEntry(i, included_papers[i])]]

\* a bug: no check for the empty collection, an empty report is written
generate_report_of_nothing ==
    /\ LET c == PdfCompose(papers, evals)
       IN  IF c.raised
           THEN /\ ret' = [kind |-> "raise", exc |-> "AttributeError"]
                /\ papers' = c.store
                /\ doc' = NoDoc
                /\ UNCHANGED files
           ELSE /\ ret' = StatusMessage(PdfFile, c.included_papers, c.excluded_count)
                /\ papers' = c.store
                /\ files' = files \cup {PdfFile}
                /\ doc' = PdfDocument(c.included_papers)
    /\ op' = "generate_report"
    /\ arg' = << >>
    /\ rerun' = FALSE
    /\ papers0' = papers
    /\ evals0' = evals
    /\ files0' = files
    /\ UNCHANGED <<evals, phase, team>>

generate_report ==
    /\ LET c == PdfCompose(papers, evals)
       IN  IF Len(papers) = 0
           THEN /\ ret' = [kind |-> "error", what |-> "Error: Collection is empty."]
                /\ doc' = NoDoc
                /\ UNCHANGED <<papers, files>>
           ELSE IF c.raised
           THEN /\ ret' = [kind |-> "raise", exc |-> "AttributeError"]
                /\ papers' = c.store
                /\ doc' = NoDoc
                /\ UNCHANGED files
           ELSE /\ ret' = StatusMessage(PdfFile, c.included_papers, c.excluded_count)
                /\ papers' = c.store
                /\ files' = files \cup {PdfFile}
                /\ doc' = PdfDocument(c.included_papers)
    /\ op' = "generate_report"
    /\ arg' = << >>
    /\ rerun' = FALSE
    /\ papers0' = papers
    /\ evals0' = evals
    /\ files0' = files
    /\ UNCHANGED <<evals, phase, team>>

\* a bug: a record that carries a critic_rank already is passed over
RECURSIVE HtmlJoinLoopOnNewRecords(_, _, _, _, _)
HtmlJoinLoopOnNewRecords(store, ledger, i, seen, unique_papers) ==
    IF i > Len(store)
    THEN [raised |-> FALSE, store |-> store, unique_papers |-> unique_papers]
    ELSE IF store[i].title = NoneValue
    THEN [raised |-> TRUE, store |-> store, unique_papers |-> unique_papers]
    ELSE LET key == strip(lower(store[i].title))
             p == IF key \in DOMAIN ledger
                  THEN Put(Put(Put(store[i], "critic_evaluation", ledger[key]),
                               "critic_rank", ledger[key].overall_score),
                           "critic_action", ledger[key].recommended_action)
                  ELSE Put(Put(store[i], "critic_rank", NeutralRank),
                           "critic_action", "include")
         IN  IF key \in seen \/ "critic_rank" \in DOMAIN store[i]
             THEN HtmlJoinLoopOnNewRecords(store, ledger, i + 1, seen, unique_papers)
             ELSE HtmlJoinLoopOnNewRecords([store EXCEPT ![i] = p], ledger, i + 1,
                                           seen \cup {key}, Append(unique_papers, p))

\* generate_html_report, the for loop
RECURSIVE HtmlJoinLoop(_, _, _, _, _)
HtmlJoinLoop(store, ledger, i, seen, unique_papers) ==
    IF i > Len(store)
    THEN [raised |-> FALSE, store |-> store, unique_papers |-> unique_papers]
    ELSE IF store[i].title = NoneValue
    THEN [raised |-> TRUE, store |-> store, unique_papers |-> unique_papers]
    ELSE LET key == strip(lower(store[i].title))
             p == IF key \in DOMAIN ledger
                  THEN Put(Put(Put(store[i], "critic_evaluation", ledger[key]),
                               "critic_rank", ledger[key].overall_score),
                           "critic_action", ledger[key].recommended_action)
                  ELSE Put(Put(store[i], "critic_rank", NeutralRank),
                           "critic_action", "include")
         IN  IF key \in seen
             THEN HtmlJoinLoop(store, ledger, i + 1, seen, unique_papers)
             ELSE HtmlJoinLoop([store EXCEPT ![i] = p], ledger, i + 1, seen \cup {key},
                               Append(unique_papers, p))

\* a bug: the copy in generate_html_report sorts on the citation count first
HtmlComposeByCitations(store, ledger) ==
    LET loop == HtmlJoinLoop(store, ledger, 1, {}, << >>)
        keyed == [i \in 1..Len(loop.unique_papers) |->
                     [key |-> <<Get(loop.unique_papers[i], "citation_count", 0),
                                Get(loop.unique_papers[i], "critic_rank", 0)>>,
                      item |-> loop.unique_papers[i]]]
        sorted == SortReverse(keyed)
        unique_papers == [i \in 1..Len(sorted) |-> sorted[i].item]
        included_papers == SelectSeq(unique_papers, NotExcluded)
    IN  [raised |-> loop.raised, store |-> loop.store,
         included_papers |-> included_papers,
         excluded_count |-> Len(unique_papers) - Len(included_papers)]

\* generate_html_report up to excluded_count
HtmlCompose(store, ledger) ==
    LET loop == HtmlJoinLoop(store, ledger, 1, {}, << >>)
        keyed == [i \in 1..Len(loop.unique_papers) |->
                     [key |-> <<Get(loop.unique_papers[i], "critic_rank", 0),
                                Get(loop.unique_papers[i], "citation_count", 0)>>,
                      item |-> loop.unique_papers[i]]]
        sorted == SortReverse(keyed)
        unique_papers == [i \in 1..Len(sorted) |-> sorted[i].item]
        included_papers == SelectSeq(unique_papers, NotExcluded)
    IN  [raised |-> loop.raised, store |-> loop.store,
         included_papers |-> included_papers,
         excluded_count |-> Len(unique_papers) - Len(included_papers)]

\* _escape_html (the texts drawn hold no quote)
escape_html(text) == IF text = << >> THEN << >> ELSE escape(text)

\* _generate_toc, one entry: the number, the title, the badge and the rank
HtmlTocEntry(i, paper) ==
    LET score == Get(paper, "critic_rank", NeutralRank)
        title == escape_html(Take(paper.title, 80))
        quality_badge == IF score >= 450 THEN [stars |-> 2, label |-> "Exceptional"]
                         ELSE IF score >= 400 THEN [stars |-> 1, label |-> "Excellent"]
                         ELSE [stars |-> 0, label |-> ""]
    IN  [number |-> i, title |-> title \o Ellipsis, stars |-> quality_badge.stars,
         badge |-> quality_badge.label, rank |-> Format1(score)]

\* _generate_papers_html, one card: the rank label with its class, then the
\* title line
HtmlBibEntry(i, paper) ==
    LET score == Get(paper, "critic_rank", NeutralRank)
        rank_class == IF score >= 450 THEN "exceptional"
                      ELSE IF score >= 400 THEN "excellent"
                      ELSE "good"
        rank_label == IF score >= 450 THEN [stars |-> 2, rank |-> Format1(score)]
                      ELSE IF score >= 400 THEN [stars |-> 1, rank |-> Format1(score)]
                      ELSE [stars |-> 0, rank |-> Format1(score)]
    IN  [rank_class |-> rank_class, rank_label |-> rank_label,
         title_text |-> [number |-> i, stars |-> 0, label |-> "",
                         title |-> escape_html(paper.title)]]

\* _generate_html, the table of contents and the paper cards
HtmlDocument(included_papers) ==
    [kind |-> "html",
     toc |-> [i \in 1..Len(included_papers) |-> HtmlTocEntry(i, included_papers[i])],
     bibliography |->
         [i \in 1..Len(included_papers) |-> HtmlBibEntry(i, included_papers[i])]]

generate_html_report ==
    /\ LET c == HtmlCompose(papers, evals)
       IN  IF Len(papers) = 0
           THEN /\ ret' = [kind |-> "error", what |-> "Error: Collection is empty."]
                /\ doc' = NoDoc
                /\ UNCHANGED <<papers, files>>
           ELSE IF c.raised
           THEN /\ ret' = [kind |-> "raise", exc |-> "AttributeError"]
                /\ papers' = c.store
                /\ doc' = NoDoc
                /\ UNCHANGED files
           ELSE /\ ret' = StatusMessage(HtmlFile, c.included_papers, c.excluded_count)
                /\ papers' = c.store
                /\ files' = files \cup {HtmlFile}
                /\ doc' = HtmlDocument(c.included_papers)
    /\ op' = "generate_html_report"
    /\ arg' = << >>
    /\ rerun' = FALSE
    /\ papers0' = papers
    /\ evals0' = evals
    /\ files0' = files
    /\ UNCHANGED <<evals, phase, team>>

(***************************************************************************)
(* clear_papers                                                            *)
(***************************************************************************)
clear_papers ==
    /\ papers' = << >>
    /\ evals' = EmptyDict
    /\ ret' = [kind |-> "cleared"]
    /\ op' = "clear_papers"
    /\ arg' = << >>
    /\ rerun' = FALSE
    /\ papers0' = papers
    /\ evals0' = evals
    /\ files0' = files
    /\ doc' = NoDoc
    /\ UNCHANGED <<files, phase, team>>

(***************************************************************************)
(* The state after `import my_tools`.                                      *)
(***************************************************************************)
Init ==
    /\ papers = << >>
    /\ evals = EmptyDict
    /\ op = "import"
    /\ arg = << >>
    /\ ret = [kind |-> "none"]
    /\ papers0 = << >>
    /\ evals0 = EmptyDict
    /\ rerun = FALSE
    /\ files = {}
    /\ files0 = {}
    /\ doc = NoDoc
    /\ team = TeamReady
    /\ phase = "idle"

(***************************************************************************)
(* The search calls of the runs explored: what the client returns, whether  *)
(* it raises afterwards, and the call's year range and num_papers.         *)
(***************************************************************************)
Venue == <<"v">>
FourAuthors == << <<"p">>, <<"q">>, <<"r">>, <<"s">> >>
Call(results, raises, start_year, end_year, num_papers) ==
    [results |-> results, raises |-> raises, start_year |-> start_year,
     end_year |-> end_year, num_papers |-> num_papers]

\* Semantic Scholar: a long abstract; a paper whose title is None; one with no
\* title attribute, published in 2019
SSLong == [title |-> <<"a">>, authors |-> FourAuthors, year |-> 2021,
           abstract |-> Words(EvalAbstractWords + 1), citations |-> 5, venue |-> Venue]
SSNone == [title |-> NoneValue, authors |-> << >>, year |-> 2021,
           abstract |-> NoneValue, citations |-> 0, venue |-> Venue]
SSOld == [title |-> Missing, authors |-> << >>, year |-> 2019,
          abstract |-> << >>, citations |-> 0, venue |-> Venue]
SSNoYear == [title |-> <<"b">>, authors |-> << >>, year |-> 0,
             abstract |-> << >>, citations |-> 0, venue |-> Venue]
SSCalls ==
    { Call(<< >>, TRUE, 2021, 2021, 1),
      Call(<<SSLong>>, FALSE, 2021, 2021, 1),
      Call(<<SSNone>>, FALSE, 2021, 2021, 2),
      Call(<<SSNone>>, TRUE, 2021, 2021, 2),
      Call(<<SSOld, SSLong>>, FALSE, 2019, 2021, 2),
      Call(<<SSOld, SSLong>>, FALSE, 2021, 2021, 2),
      Call(<<SSNoYear, SSLong, SSNone>>, TRUE, 2019, 2021, 1) }

PMCase == [title |-> <<" ", "A">>, authors |-> << <<"p">> >>, year |-> 2021,
           abstract |-> Words(2), venue |-> Venue]
PMPunct == [title |-> <<"-">>, authors |-> << >>, year |-> 2021,
            abstract |-> << >>, venue |-> Venue]
PubMedCalls ==
    { Call(<< >>, FALSE, 2021, 2021, 1),
      Call(<<PMCase>>, FALSE, 2021, 2021, 1),
      Call(<<PMPunct>>, TRUE, 2021, 2021, 2),
      Call(<<PMCase, PMCase>>, FALSE, 2021, 2021, 2) }

AXDash == [title |-> <<"a", "-">>, authors |-> Take(FourAuthors, 3), year |-> 2021,
           abstract |-> Words(EvalAbstractWords)]
AXOld == [title |-> <<"b">>, authors |-> << <<"q">> >>, year |-> 2019,
          abstract |-> Words(2)]
ArXivCalls ==
    { Call(<< >>, TRUE, 2021, 2021, 1),
      Call(<<AXDash>>, FALSE, 2021, 2021, 1),
      Call(<<AXOld>>, FALSE, 2019, 2021, 2),
      Call(<<AXOld, AXDash>>, FALSE, 2021, 2021, 2) }

OAMissing == [title |-> Missing, authors |-> << >>, year |-> 2021,
              index |-> <<[word |-> <<"a">>, positions |-> <<1>>],
                          [word |-> <<"q", "u", "i", "c", "k">>, positions |-> <<0>>]>>,
              citations |-> 7, venue |-> Venue]
OAUpper == [title |-> <<"A">>, authors |-> << >>, year |-> 2021,
            index |-> << >>, citations |-> 2, venue |-> Venue]
OpenAlexCalls ==
    { Call(<< >>, TRUE, 2021, 2021, 1),
      Call(<<OAMissing>>, FALSE, 2021, 2021, 1),
      Call(<<OAUpper>>, TRUE, 2021, 2021, 1),
      Call(<<OAUpper, OAMissing>>, FALSE, 2021, 2021, 2) }

Search ==
    \/ \E c \in SSCalls :
         SemanticScholarSearch(c.results, c.raises, c.start_year, c.end_year, c.num_papers)
    \/ \E c \in PubMedCalls : PubMedSearch(c.results, c.raises)
    \/ \E c \in ArXivCalls :
         ArXivSearch(c.results, c.raises, c.start_year, c.end_year, c.num_papers)
    \/ \E c \in OpenAlexCalls : OpenAlexSearch(c.results, c.raises)

StoreItem ==
    [paper_title |-> <<" ", "A">>, relevance_score |-> 45, methodological_soundness |-> 40,
     impact_score |-> 50, redundancy_flag |-> TRUE, flags |-> <<"review">>,
     recommended_action |-> "exclude", rationale |-> "r", overall_score |-> 10]

(***************************************************************************)
(* The Paper Store under searches, deduplication, snapshot and reset, with  *)
(* one ingestion that fills the ledger.                                    *)
(***************************************************************************)
NextStore ==
    \/ Search
    \/ deduplicate_collection
    \/ get_papers_for_evaluation
    \/ evaluate_papers([kind |-> "list", items |-> <<StoreItem>>])
    \/ clear_papers

SpecStore == Init /\ [][NextStore]_vars

(***************************************************************************)
(* The Critic Ledger under ingestion and reset, beside a store that one    *)
(* PubMed call fills.                                                      *)
(***************************************************************************)
SeqsUpTo(S, n) == UNION {[1..k -> S] : k \in 0..n}

FullItem == StoreItem
TitleOnlyItem == [paper_title |-> <<"a">>]
NoTitleItem == [relevance_score |-> 20, overall_score |-> 50]
OtherItem == [paper_title |-> <<"b">>, impact_score |-> 10, rationale |-> "s"]
NonDictItem == [nondict |-> TRUE]
NullTitleItem == [paper_title |-> NoneValue, relevance_score |-> 50]

Items == {FullItem, TitleOnlyItem, NoTitleItem, OtherItem, NonDictItem, NullTitleItem}

Payloads ==
    {[kind |-> "invalid", items |-> << >>], [kind |-> "scalar", items |-> << >>]}
    \cup {[kind |-> "list", items |-> items] : items \in SeqsUpTo(Items, MaxPayload)}

NextLedger ==
    \/ \E evaluations \in Payloads : evaluate_papers(evaluations)
    \/ PubMedSearch(<<PMCase>>, FALSE)
    \/ clear_papers

SpecLedger == Init /\ [][NextLedger]_vars

(***************************************************************************)
(* The Report Composer beside searches that fill the store and ingestions  *)
(* that fill the ledger.  The store gets "a" (5 citations), " A", "b" and  *)
(* "c" together, and a record whose title is None; the ledger gets         *)
(*   "a"  excluded at 4.5, or included at the default 3.0                  *)
(*   "b"  included at 4.8, which matches no paper as long as the store   *)
(*        holds no "b"                                                     *)
(***************************************************************************)
HighItem ==
    [paper_title |-> <<"B">>, relevance_score |-> 48, methodological_soundness |-> 48,
     impact_score |-> 48, flags |-> << >>, rationale |-> "s"]

ReportItems == {FullItem, TitleOnlyItem, HighItem}

AXNew == [title |-> <<"c">>, authors |-> << <<"q">> >>, year |-> 2021,
          abstract |-> Words(2)]

ReportSearch ==
    \/ SemanticScholarSearch(<<SSLong>>, FALSE, 2021, 2021, 1)
    \/ PubMedSearch(<<PMCase>>, FALSE)
    \/ ArXivSearch(<<AXOld, AXNew>>, FALSE, 2019, 2021, 2)
    \/ OpenAlexSearch(<<OAMissing>>, FALSE)

NextReport ==
    \/ ReportSearch
    \/ \E item \in ReportItems : evaluate_papers([kind |-> "list", items |-> <<item>>])
    \/ generate_report
    \/ generate_html_report
    \/ clear_papers

SpecReport == Init /\ [][NextReport]_vars

(***************************************************************************)
(* Every tool of the module, called in any order.                          *)
(***************************************************************************)
FrameItems == {FullItem, TitleOnlyItem}

FrameSearch ==
    \/ SemanticScholarSearch(<<SSLong>>, FALSE, 2021, 2021, 1)
    \/ PubMedSearch(<<PMCase>>, FALSE)
    \/ OpenAlexSearch(<<OAMissing>>, FALSE)

NextFrame ==
    \/ FrameSearch
    \/ deduplicate_collection
    \/ get_papers_for_evaluation
    \/ \E item \in FrameItems : evaluate_papers([kind |-> "list", items |-> <<item>>])
    \/ generate_report
    \/ generate_html_report
    \/ clear_papers

SpecFrame == Init /\ [][NextFrame]_vars

(***************************************************************************)
(* The documents the report tools write, for ledgers whose scores lie in   *)
(* every tier: searches, evaluations and the two report tools.             *)
(***************************************************************************)
\* an entry of composite score 4.46
ExcellentItem ==
    [paper_title |-> <<"c">>, relevance_score |-> 44, methodological_soundness |-> 46,
     impact_score |-> 44, rationale |-> "t"]

\* an entry of composite score 3.8
GoodItem ==
    [paper_title |-> <<"c">>, relevance_score |-> 38, methodological_soundness |-> 38,
     impact_score |-> 38]

DocumentItems == {TitleOnlyItem, HighItem, ExcellentItem, GoodItem}

DocumentSearch ==
    \/ SemanticScholarSearch(<<SSLong>>, FALSE, 2021, 2021, 1)
    \/ PubMedSearch(<<PMCase>>, FALSE)
    \/ ArXivSearch(<<AXOld, AXNew>>, FALSE, 2019, 2021, 2)

NextDocument ==
    \/ DocumentSearch
    \/ \E item \in DocumentItems : evaluate_papers([kind |-> "list", items |-> <<item>>])
    \/ generate_report
    \/ generate_html_report

SpecDocument == Init /\ [][NextDocument]_vars

(***************************************************************************)
(* run_workflow: the stores are reset, then ResearchSystem runs its        *)
(* sub-agents one after the other; each agent calls its own tools, any     *)
(* number of times.                                                        *)
(***************************************************************************)
Agents == <<"ParallelResearchTeam", "AggregatorPhase1", "CriticFetcher",
            "CriticEvaluator", "ReportGeneration">>

\* a bug: the run starts on the stores the last run left
run_workflow_keeping_stores ==
    /\ phase = "idle"
    /\ phase' = Agents[1]
    /\ ret' = [kind |-> "cleared"]
    /\ op' = "clear_papers"
    /\ arg' = << >>
    /\ rerun' = FALSE
    /\ papers0' = papers
    /\ evals0' = evals
    /\ files0' = files
    /\ doc' = NoDoc
    /\ team' = TeamReady
    /\ UNCHANGED <<papers, evals, files>>

\* run_workflow up to the start of the runner: importlib.reload executes the
\* module again, clear_papers binds both globals to empty ones
run_workflow ==
    /\ phase = "idle"
    /\ phase' = Agents[1]
    /\ papers' = << >>
    /\ evals' = EmptyDict
    /\ ret' = [kind |-> "cleared"]
    /\ op' = "clear_papers"
    /\ arg' = << >>
    /\ rerun' = FALSE
    /\ papers0' = papers
    /\ evals0' = evals
    /\ files0' = files
    /\ doc' = NoDoc
    /\ team' = TeamReady
    /\ UNCHANGED files

\* the SequentialAgent moves on to its next sub-agent; after the last one the
\* run is over
NextAgent ==
    /\ \E k \in 1..Len(Agents) :
         /\ phase = Agents[k]
         /\ phase' = IF k < Len(Agents) THEN Agents[k + 1] ELSE "idle"
    /\ UNCHANGED <<papers, evals, op, arg, ret, papers0, evals0, rerun, files, files0, doc, team>>

\* the run ends before its last agent is through: an exception out of the
\* runner (a tool that raised, a model call that failed) is caught and reported
EndRun ==
    /\ phase # "idle"
    /\ phase' = "idle"
    /\ UNCHANGED <<papers, evals, op, arg, ret, papers0, evals0, rerun, files, files0, doc, team>>

WorkflowItems == {FullItem, HighItem, NonDictItem}

NextWorkflow ==
    \/ run_workflow
    \/ NextAgent
    \/ EndRun
    \/ phase = "ParallelResearchTeam" /\ ReportSearch
    \/ phase = "AggregatorPhase1" /\ deduplicate_collection
    \/ phase = "CriticFetcher" /\ get_papers_for_evaluation
    \/ /\ phase = "CriticEvaluator"
       /\ \E item \in WorkflowItems : evaluate_papers([kind |-> "list", items |-> <<item>>])
    \/ phase = "ReportGeneration" /\ generate_report
    \/ phase = "ReportGeneration" /\ generate_html_report

SpecWorkflow == Init /\ [][NextWorkflow]_vars

(***************************************************************************)
(* run_workflow with the searches of ParallelResearchTeam taken apart: the *)
(* four collaborators run side by side, a search call is its start (the    *)
(* client's results are in), one step per COLLECTED_PAPERS.append, and its  *)
(* return.  ParallelAgent is through when each of its sub-agents is.       *)
(***************************************************************************)
SearchName ==
    [c \in Team |-> CASE c = "Semantic Scholar" -> "SemanticScholarTool.search"
                      [] c = "PubMed" -> "PubMedTool.search"
                      [] c = "arXiv" -> "ArXivTool.search"
                      [] c = "OpenAlex" -> "OpenAlexTool.search"]

\* the search calls of the runs explored: the records the loop appends, and
\* whether the client raises after them
TeamCalls ==
    [c \in Team |->
        CASE c = "Semantic Scholar" ->
                 {[new |-> Map(SSPaperData,
                               FilteredLoop(<<SSLong>>, 2021, 2021, 1, << >>).added),
                   raises |-> FALSE]}
          [] c = "PubMed" ->
                 {[new |-> Map(PubMedPaperData, <<PMCase>>), raises |-> FALSE],
                  [new |-> Map(PubMedPaperData, <<PMCase>>), raises |-> TRUE]}
          [] c = "arXiv" ->
                 {[new |-> Map(ArXivPaperData,
                               FilteredLoop(<<AXOld, AXNew>>, 2019, 2021, 2, << >>).added),
                   raises |-> FALSE]}
          [] c = "OpenAlex" ->
                 {[new |-> Map(OpenAlexPaperData, <<OAUpper>>), raises |-> FALSE]}]

\* what a step of a search call records: the call it belongs to, what the
\* call has returned so far, and the stores the step started on
SearchStep(c, returned) ==
    /\ op' = SearchName[c]
    /\ arg' = << >>
    /\ ret' = returned
    /\ rerun' = FALSE
    /\ papers0' = papers
    /\ evals0' = evals
    /\ files0' = files
    /\ doc' = NoDoc

\* the collaborator calls its search tool: the client returns its results
StartSearch(c) ==
    /\ phase = "ParallelResearchTeam"
    /\ team[c].status = "ready"
    /\ \E call \in TeamCalls[c] :
         team' = [team EXCEPT ![c] = [status |-> "running", todo |-> call.new,
                                      added |-> << >>, raises |-> call.raises,
                                      count |-> 0]]
    /\ SearchStep(c, [kind |-> "running"])
    /\ UNCHANGED <<papers, evals, files, phase>>

\* a bug: an append made while another search call is running is lost
AppendPaperUnlessBusy(c) ==
    /\ team[c].status = "running"
    /\ team[c].todo # << >>
    /\ papers' = IF \E d \in Team \ {c} : team[d].status = "running"
                 THEN papers
                 ELSE Append(papers, Head(team[c].todo))
    /\ team' = [team EXCEPT ![c].todo = Tail(team[c].todo),
                            ![c].added = Append(team[c].added, Head(team[c].todo)),
                            ![c].count = team[c].count + 1]
    /\ SearchStep(c, [kind |-> "running"])
    /\ UNCHANGED <<evals, files, phase>>

\* COLLECTED_PAPERS.append(paper_data); count += 1
AppendPaper(c) ==
    /\ team[c].status = "running"
    /\ team[c].todo # << >>
    /\ papers' = Append(papers, Head(team[c].todo))
    /\ team' = [team EXCEPT ![c].todo = Tail(team[c].todo),
                            ![c].added = Append(team[c].added, Head(team[c].todo)),
                            ![c].count = team[c].count + 1]
    /\ SearchStep(c, [kind |-> "running"])
    /\ UNCHANGED <<evals, files, phase>>

\* the loop is over: the call returns its count ("done", the count being the
\* number of records added), or the error the client raised
ReturnSearch(c) ==
    /\ team[c].status = "running"
    /\ team[c].todo = << >>
    /\ team' = [team EXCEPT ![c].status = IF team[c].raises THEN "error" ELSE "done"]
    /\ SearchStep(c, IF team[c].raises THEN [kind |-> "error"]
                     ELSE [kind |-> "added", count |-> team[c].count])
    /\ UNCHANGED <<papers, evals, files, phase>>

\* no collaborator is in a search call
TeamJoined == \A c \in Team : team[c].status # "running"

\* the collaborators that are through are forgotten
TeamLeft == [c \in Team |-> IF team[c].status = "running" THEN team[c] ELSE TeamReady[c]]

\* a bug: ResearchSystem moves on while a search call is running
TeamNextAgentWithoutJoin ==
    /\ \E k \in 1..Len(Agents) :
         /\ phase = Agents[k]
         /\ phase' = IF k < Len(Agents) THEN Agents[k + 1] ELSE "idle"
    /\ team' = IF phase = "ParallelResearchTeam" THEN TeamLeft ELSE team
    /\ UNCHANGED <<papers, evals, op, arg, ret, papers0, evals0, rerun, files, files0, doc>>

\* ResearchSystem moves on to its next sub-agent; ParallelResearchTeam is
\* through when each of its collaborators is
TeamNextAgent ==
    /\ TeamJoined
    /\ \E k \in 1..Len(Agents) :
         /\ phase = Agents[k]
         /\ phase' = IF k < Len(Agents) THEN Agents[k + 1] ELSE "idle"
    /\ team' = IF phase = "ParallelResearchTeam" THEN TeamLeft ELSE team
    /\ UNCHANGED <<papers, evals, op, arg, ret, papers0, evals0, rerun, files, files0, doc>>

\* the run ends on an exception, between two tool calls
TeamEndRun ==
    /\ TeamJoined
    /\ phase # "idle"
    /\ phase' = "idle"
    /\ team' = TeamLeft
    /\ UNCHANGED <<papers, evals, op, arg, ret, papers0, evals0, rerun, files, files0, doc>>

NextTeam ==
    \/ run_workflow
    \/ \E c \in Team : StartSearch(c)
    \/ \E c \in Team : AppendPaper(c)
    \/ \E c \in Team : ReturnSearch(c)
    \/ TeamNextAgent
    \/ TeamEndRun
    \/ phase = "AggregatorPhase1" /\ deduplicate_collection
    \/ phase = "CriticFetcher" /\ get_papers_for_evaluation
    \/ /\ phase = "CriticEvaluator"
       /\ \E item \in {TitleOnlyItem, HighItem} : evaluate_papers([kind |-> "list", items |-> <<item>>])
    \/ phase = "ReportGeneration" /\ generate_report
    \/ phase = "ReportGeneration" /\ generate_html_report

SpecTeam == Init /\ [][NextTeam]_vars

(***************************************************************************)
(* The two title keys side by side: the store is filled from OpenAlex      *)
(* results whose titles differ in case, surrounding blanks and             *)
(* punctuation, or have no letter or digit, or are missing; then it is     *)
(* deduplicated and reported on.                                           *)
(***************************************************************************)
KeyTitles ==
    { <<"a">>, <<" ", "A">>, <<"a", "-">>, <<"-">>, Untitled, Missing }

KeyWork(title) == [OAUpper EXCEPT !.title = title]

NextKeys ==
    \/ \E title \in KeyTitles : OpenAlexSearch(<<KeyWork(title)>>, FALSE)
    \/ deduplicate_collection
    \/ generate_report
    \/ generate_html_report

SpecKeys == Init /\ [][NextKeys]_vars

(***************************************************************************)
(* The critic's round trip in a workflow run: the store is filled,         *)
(* CriticFetcher takes the snapshot, CriticEvaluator answers it with one   *)
(* evaluation per listed paper under the title the snapshot gave, and the  *)
(* reports are generated.  CriticEvaluator may ingest an evaluation of its *)
(* own making as well.                                                     *)
(***************************************************************************)
RoundTripTitles == { <<"a">>, <<" ", "A">>, <<"a", "-">>, Missing }

\* what the evaluator says of a paper, beside its title
Verdicts ==
    { EmptyDict,
      [relevance_score |-> 48, methodological_soundness |-> 48, impact_score |-> 48],
      [relevance_score |-> 20, recommended_action |-> "exclude"] }

\* the evaluations payload that answers a snapshot
Answer(listing, verdict) ==
    [kind |-> "list",
     items |-> [i \in 1..Len(listing) |-> Put(verdict[i], "paper_title", listing[i].title)]]

\* CriticEvaluator: the snapshot just returned is evaluated and ingested
RoundTripEvaluate ==
    /\ op = "get_papers_for_evaluation"
    /\ "papers" \in DOMAIN ret
    /\ \E verdict \in [1..Len(ret.papers) -> Verdicts] :
           evaluate_papers(Answer(ret.papers, verdict))

NextRoundTrip ==
    \/ run_workflow
    \/ NextAgent
    \/ EndRun
    \/ /\ phase = "ParallelResearchTeam"
       /\ \E title \in RoundTripTitles : OpenAlexSearch(<<KeyWork(title)>>, FALSE)
    \/ phase = "AggregatorPhase1" /\ deduplicate_collection
    \/ phase = "CriticFetcher" /\ get_papers_for_evaluation
    \/ phase = "CriticEvaluator" /\ RoundTripEvaluate
    \/ /\ phase = "CriticEvaluator"
       /\ evaluate_papers([kind |-> "list", items |-> <<TitleOnlyItem>>])
    \/ phase = "ReportGeneration" /\ generate_report
    \/ phase = "ReportGeneration" /\ generate_html_report

SpecRoundTrip == Init /\ [][NextRoundTrip]_vars

(***************************************************************************)
(* The page callbacks of the PDF document.  doc.build calls                *)
(* add_first_page_elements on the first page and add_later_pages_elements  *)
(* on every other page; a callback is modelled by the calls it makes on    *)
(* the canvas, in order, with "print" for the diagnostic.  The image is    *)
(* opened and drawn in steps, any one of which may raise.                  *)
(***************************************************************************)
ImageFailures == {"none", "Image.open", "ImageReader", "drawImage"}

\* # Header/Footer
HeaderFooter ==
    <<"setStrokeColor", "setLineWidth", "line",
      "setStrokeColor", "setLineWidth", "line",
      "setFont", "setFillColor", "drawRightString", "drawString">>

\* # Watermark: the try statement of add_first_page_elements
Watermark(fails) ==
    IF fails = "Image.open"
    THEN <<"print">>
    ELSE IF fails \in {"ImageReader", "drawImage"}
    THEN <<"saveState", "setFillAlpha", "print">>
    ELSE <<"saveState", "setFillAlpha", "drawImage", "restoreState">>

\* # Logo: the try statement of add_later_pages_elements
Logo(fails) ==
    IF fails = "none" THEN <<"drawImage">> ELSE <<"print">>

\* a page callback has run on the document that generate_report built
PageCallback(name, fails, calls) ==
    /\ doc.kind = "pdf"
    /\ op' = name
    /\ arg' = fails
    /\ ret' = [kind |-> "canvas", calls |-> calls]
    /\ rerun' = FALSE
    /\ papers0' = papers
    /\ evals0' = evals
    /\ files0' = files
    /\ UNCHANGED <<papers, evals, files, doc, phase, team>>

add_first_page_elements(fails) ==
    PageCallback("add_first_page_elements", fails,
                 <<"saveState">> \o Watermark(fails) \o HeaderFooter \o <<"restoreState">>)

add_later_pages_elements(fails) ==
    PageCallback("add_later_pages_elements", fails,
                 <<"saveState">> \o Logo(fails) \o HeaderFooter \o <<"restoreState">>)

NextCanvas ==
    \/ DocumentSearch
    \/ generate_report
    \/ \E fails \in ImageFailures : add_first_page_elements(fails)
    \/ \E fails \in ImageFailures : add_later_pages_elements(fails)

SpecCanvas == Init /\ [][NextCanvas]_vars

(***************************************************************************)
(* The Text Normalizer on its own: an input is drawn, then the function is *)
(* applied to it.  A text is over the characters "a", "b" and the blank,   *)
(* or None, or the placeholder; an inverted index holds the words "a" and  *)
(* "quick", each with a list of positions.                                 *)
(***************************************************************************)
MaxText == 4        \* longest text drawn
MaxLimit == 3       \* largest word limit n drawn
MaxPos == 2         \* largest position of an inverted index
MaxOccur == 2       \* most positions one word of an index has

Texts == SeqsUpTo({"a", "b", " "}, MaxText) \cup {NoneValue, Placeholder}

IndexWords == {<<"a">>, <<"q", "u", "i", "c", "k">>}
PositionLists == SeqsUpTo(0..MaxPos, MaxOccur)
Indexes ==
    {<< >>}
    \cup {<<[word |-> w, positions |-> ps]>> : w \in IndexWords, ps \in PositionLists}
    \cup {<<[word |-> ws[1], positions |-> ps1], [word |-> ws[2], positions |-> ps2]>> :
             ws \in {x \in IndexWords \X IndexWords : x[1] # x[2]},
             ps1 \in PositionLists, ps2 \in PositionLists}

MaxTokens == 3      \* most pieces a text given to clean_text is made of

\* the pieces of a text given to clean_text: a digit, a blank, the three
\* markup-sensitive characters, two entities, a tag, and the two characters
\* outside ASCII
CleanTokens ==
    {<<"1">>, <<" ">>, <<"<">>, <<">">>, <<"&">>,
     <<"&", "a", "m", "p", ";">>, <<"&", "l", "t", ";">>, <<"<", "b", ">">>,
     <<FullwidthLess>>, <<EmDash>>}

RECURSIVE Flatten(_)
Flatten(pieces) == IF pieces = << >> THEN << >> ELSE Head(pieces) \o Flatten(Tail(pieces))

CleanTexts == {Flatten(pieces) : pieces \in SeqsUpTo(CleanTokens, MaxTokens)} \cup {NoneValue}

TextInputs ==
    {[fn |-> "truncate_abstract", text |-> text, n |-> n] :
         text \in Texts, n \in 0..MaxLimit}
    \cup {[fn |-> "reconstruct_abstract", inverted_index |-> index] : index \in Indexes}
    \cup {[fn |-> "clean_text", text |-> text] : text \in CleanTexts}

InitText ==
    /\ papers = << >>
    /\ evals = EmptyDict
    /\ op = "input"
    /\ arg \in TextInputs
    /\ ret = [kind |-> "none"]
    /\ papers0 = << >>
    /\ evals0 = EmptyDict
    /\ rerun = FALSE
    /\ files = {}
    /\ files0 = {}
    /\ doc = NoDoc
    /\ team = TeamReady
    /\ phase = "idle"

TruncateCall ==
    /\ op = "input"
    /\ arg.fn = "truncate_abstract"
    /\ ret' = truncate_abstract(arg.text, arg.n)
    /\ op' = "truncate_abstract"
    /\ UNCHANGED <<papers, evals, arg, papers0, evals0, rerun, files, files0, doc, phase, team>>

ReconstructCall ==
    /\ op = "input"
    /\ arg.fn = "reconstruct_abstract"
    /\ ret' = reconstruct_abstract(arg.inverted_index)
    /\ op' = "reconstruct_abstract"
    /\ UNCHANGED <<papers, evals, arg, papers0, evals0, rerun, files, files0, doc, phase, team>>

CleanCall ==
    /\ op = "input"
    /\ arg.fn = "clean_text"
    /\ ret' = clean_text(arg.text)
    /\ op' = "clean_text"
    /\ UNCHANGED <<papers, evals, arg, papers0, evals0, rerun, files, files0, doc, phase, team>>

NextText == TruncateCall \/ ReconstructCall \/ CleanCall

SpecText == InitText /\ [][NextText]_vars

(***************************************************************************)
(* Properties of the Paper Store.                                          *)
(***************************************************************************)
\* the normalized title of the store's deduplication: lowercased,
\* non-alphanumeric characters removed; None has none and counts as empty
NormalizedTitle(title) == IF title = NoneValue THEN << >> ELSE SelectSeq(lower(title), isalnum)

\* record i of the store is one the deduplication must keep
Survives(store, i) ==
    \/ NormalizedTitle(store[i].title) \in {<< >>, untitled}
    \/ \A j \in 1..(i - 1) :
         NormalizedTitle(store[j].title) # NormalizedTitle(store[i].title)

\* the subsequence of the store at the indices in idx
Subsequence(store, idx) ==
    [k \in 1..Cardinality(idx) |->
        store[CHOOSE i \in idx : Cardinality({j \in idx : j <= i}) = k]]

Survivors(store) == Subsequence(store, {i \in 1..Len(store) : Survives(store, i)})

HasNoneTitle(store) == \E i \in 1..Len(store) : store[i].title = NoneValue

\* C1: a second deduplicate_collection run right after a first one on a
\* non-empty store leaves the store as the first run left it and reports 0
\* removed.
C1_DedupIdempotent ==
    (op = "deduplicate_collection" /\ rerun /\ papers0 # << >>) =>
        /\ ret.kind = "ok"
        /\ ret.removed = 0
        /\ papers = papers0

\* C1 on the stores whose titles are all strings
C1_DedupIdempotentOnStrTitles ==
    (op = "deduplicate_collection" /\ rerun /\ papers0 # << >> /\ ~HasNoneTitle(papers0)) =>
        /\ ret.kind = "ok"
        /\ ret.removed = 0
        /\ papers = papers0

\* C2: after deduplicate_collection the store is the subsequence of the
\* original made of every record whose normalized title is empty or
\* "untitled" and the first occurrence of every other normalized title, and
\* the count reported is the original length minus the resulting length.
C2_DedupKeepsFirstOccurrences ==
    (op = "deduplicate_collection" /\ papers0 # << >>) =>
        /\ papers = Survivors(papers0)
        /\ ret.kind = "ok"
        /\ ret.removed = Len(papers0) - Len(papers)

\* C2 on the stores whose titles are all strings
C2_DedupKeepsFirstOccurrencesOnStrTitles ==
    (op = "deduplicate_collection" /\ papers0 # << >> /\ ~HasNoneTitle(papers0)) =>
        /\ papers = Survivors(papers0)
        /\ ret.kind = "ok"
        /\ ret.removed = Len(papers0) - Len(papers)

\* a deduplication that removed a later duplicate and kept an untitled record
DedupRemovedSome ==
    /\ op = "deduplicate_collection"
    /\ ret.kind = "ok"
    /\ ret.removed > 0
    /\ \E i \in 1..Len(papers) : NormalizedTitle(papers[i].title) \in {<< >>, untitled}

(***************************************************************************)
(* Properties of the Critic Ledger.                                        *)
(***************************************************************************)
IsIngest == op = "evaluate_papers" /\ arg.kind = "list"

\* the payload entries the loop got through: all those before the first one
\* that raises
Processed(items) == {i \in 1..Len(items) : \A j \in 1..i : ~ItemRaises(items[j])}

\* i is the last processed entry of the payload with its key
LastWithKey(items, i) ==
    \A j \in Processed(items) : j > i => TitleKey(items[j]) # TitleKey(items[i])

\* C3: every record of the ledger has overall_score = 0.4*relevance_score +
\* 0.3*methodological_soundness + 0.3*impact_score of that same record,
\* whatever overall_score the payload entry carried.
C3_OverallRecomputed ==
    \A k \in DOMAIN evals :
        evals[k].overall_score =
            4 * evals[k].relevance_score + 3 * evals[k].methodological_soundness
            + 3 * evals[k].impact_score

\* an entry that carried another overall_score than the weighted sum is stored
C3_Witness ==
    /\ IsIngest
    /\ ret.kind = "ok"
    /\ \E i \in 1..Len(arg.items) :
         /\ "overall_score" \in DOMAIN arg.items[i]
         /\ LastWithKey(arg.items, i)
         /\ evals[TitleKey(arg.items[i])].overall_score # arg.items[i].overall_score

\* C4: whenever evaluate_papers returns a "Critic Error" result, the ledger is
\* what it was before the call.
C4_AllOrNothing ==
    (op = "evaluate_papers" /\ ret.kind = "error") => evals = evals0

\* C4 for the payloads json.loads rejects or that are not a list
C4_NothingStoredWithoutList ==
    (op = "evaluate_papers" /\ arg.kind # "list") => (ret.kind = "error" /\ evals = evals0)

\* C5: a single malformed entry does not abort the remaining ones: every
\* well-formed entry after it is stored in the ledger with its own defaults.
C5_MalformedEntrySkipped ==
    IsIngest =>
        \A i \in 1..Len(arg.items) :
            (/\ ~ItemRaises(arg.items[i])
             /\ Cardinality({j \in 1..Len(arg.items) : ItemRaises(arg.items[j])}) = 1
             /\ \E j \in 1..(i - 1) : ItemRaises(arg.items[j])
             /\ \A j \in (i + 1)..Len(arg.items) :
                  ItemRaises(arg.items[j]) \/ TitleKey(arg.items[j]) # TitleKey(arg.items[i]))
            => /\ TitleKey(arg.items[i]) \in DOMAIN evals
               /\ evals[TitleKey(arg.items[i])] = EvaluationRecord(arg.items[i])

\* what the code does instead: nothing after the first entry that raises is
\* stored by the call, everything before it is
C5_MalformedEntryAborts ==
    (IsIngest /\ ret.kind = "error") =>
        evals = EvaluateLoop(SubSeq(arg.items, 1, Cardinality(Processed(arg.items))),
                             evals0, 0).ledger

\* C6: on a payload that is not JSON, evaluate_papers returns an error string
\* and leaves the ledger and the store unchanged.
C6_InvalidJsonRejected ==
    (op = "evaluate_papers" /\ arg.kind = "invalid") =>
        /\ ret.kind = "error"
        /\ ret.what = "Invalid JSON format"
        /\ evals = evals0
        /\ papers = papers0

\* an unparseable payload arrived while both stores held something
C6_Witness ==
    /\ op = "evaluate_papers"
    /\ arg.kind = "invalid"
    /\ DOMAIN evals0 # {}
    /\ papers0 # << >>

\* C7: every field missing from an ingested entry takes its default in the
\* stored record (3.0 for each sub-score, false, "include", no flags, empty
\* rationale), fields present are stored as given, and the key is the
\* lowercased, trimmed paper_title.
C7_DefaultsApplied ==
    IsIngest =>
        \A i \in Processed(arg.items) :
            LastWithKey(arg.items, i) =>
                LET item == arg.items[i]
                    key == strip(lower(IF "paper_title" \in DOMAIN item
                                       THEN item.paper_title ELSE << >>))
                    Field(name, default) ==
                        evals[key][name] =
                            (IF name \in DOMAIN item THEN item[name] ELSE default)
                IN  /\ key \in DOMAIN evals
                    /\ Field("relevance_score", 30)
                    /\ Field("methodological_soundness", 30)
                    /\ Field("impact_score", 30)
                    /\ Field("redundancy_flag", FALSE)
                    /\ Field("recommended_action", "include")
                    /\ Field("flags", << >>)
                    /\ Field("rationale", "")

\* an entry with no title and no methodology score is stored under the empty
\* key, beside an entry whose title had a capital and a leading blank
C7_Witness ==
    /\ IsIngest
    /\ ret.kind = "ok"
    /\ \E i \in 1..Len(arg.items) :
         /\ DOMAIN arg.items[i] \cap {"paper_title", "methodological_soundness"} = {}
         /\ evals[<< >>].methodological_soundness = 30
    /\ \E i \in 1..Len(arg.items) :
         /\ "paper_title" \in DOMAIN arg.items[i]
         /\ arg.items[i].paper_title = <<" ", "A">>
         /\ <<"a">> \in DOMAIN evals

\* the keys a payload names
Named(items) == {TitleKey(items[i]) : i \in 1..Len(items)}

\* C8: after a successful evaluate_papers the record under a key the payload
\* names is the one built from the payload's last entry with that key, the
\* records of the other keys are kept, and only clear_papers removes a key.
C8_OverwriteByKey ==
    /\ (IsIngest /\ ret.kind = "ok") =>
          /\ DOMAIN evals = DOMAIN evals0 \cup Named(arg.items)
          /\ \A k \in DOMAIN evals :
               IF k \in Named(arg.items)
               THEN \E i \in 1..Len(arg.items) :
                      /\ TitleKey(arg.items[i]) = k
                      /\ \A j \in (i + 1)..Len(arg.items) : TitleKey(arg.items[j]) # k
                      /\ evals[k] = EvaluationRecord(arg.items[i])
               ELSE evals[k] = evals0[k]
    /\ op # "clear_papers" => DOMAIN evals0 \subseteq DOMAIN evals

\* a payload naming one key twice replaced a stored record and left another
\* key's record alone
C8_Witness ==
    /\ IsIngest
    /\ ret.kind = "ok"
    /\ \E i, j \in 1..Len(arg.items) :
         /\ i < j
         /\ TitleKey(arg.items[i]) = TitleKey(arg.items[j])
         /\ EvaluationRecord(arg.items[i]) # EvaluationRecord(arg.items[j])
         /\ TitleKey(arg.items[i]) \in DOMAIN evals0
         /\ evals0[TitleKey(arg.items[i])] # evals[TitleKey(arg.items[i])]
    /\ DOMAIN evals0 \ Named(arg.items) # {}

(***************************************************************************)
(* Properties of the evaluation snapshot.                                  *)
(***************************************************************************)
\* C9: get_papers_for_evaluation on an empty store returns an object with an
\* "error" field and neither "papers" nor "total_papers"; on a non-empty
\* store the object has no "error" field.
C9_SnapshotErrorMarker ==
    op = "get_papers_for_evaluation" =>
        IF papers0 = << >>
        THEN "error" \in DOMAIN ret /\ DOMAIN ret \cap {"papers", "total_papers"} = {}
        ELSE "error" \notin DOMAIN ret

\* the snapshot of an empty store while the ledger holds an evaluation
C9_Witness ==
    /\ op = "get_papers_for_evaluation"
    /\ papers0 = << >>
    /\ "error" \in DOMAIN ret
    /\ DOMAIN evals # {}

WordCount(text) == Len(split(text))

\* C10: on a non-empty store the snapshot has one reduced entry per record,
\* in store order, total_papers is the store's length, each entry carries the
\* first 3 authors at most and an abstract of 150 words at most, and neither
\* store changes.
C10_SnapshotReducedView ==
    (op = "get_papers_for_evaluation" /\ papers0 # << >>) =>
        /\ DOMAIN ret = {"total_papers", "papers"}
        /\ ret.total_papers = Len(papers0)
        /\ Len(ret.papers) = Len(papers0)
        /\ \A i \in 1..Len(papers0) :
             LET entry == ret.papers[i]
                 paper == papers0[i]
             IN  /\ DOMAIN entry = {"title", "authors", "pub_year", "abstract", "source",
                                    "citation_count", "venue"}
                 /\ entry.title = paper.title
                 /\ entry.pub_year = paper.pub_year
                 /\ entry.source = paper.source
                 /\ entry.citation_count = paper.citation_count
                 /\ entry.venue = paper.venue
                 /\ Len(entry.authors) <= 3
                 /\ Len(entry.authors) = (IF Len(paper.authors) < 3 THEN Len(paper.authors) ELSE 3)
                 /\ \A a \in 1..Len(entry.authors) : entry.authors[a] = paper.authors[a]
                 /\ WordCount(entry.abstract) <= 150
                 /\ WordCount(paper.abstract) <= 150 => entry.abstract = paper.abstract
        /\ papers = papers0
        /\ evals = evals0

\* the snapshot of a store holding a record with four authors and an abstract
\* of more than 150 words, while the ledger holds an evaluation
C10_Witness ==
    /\ op = "get_papers_for_evaluation"
    /\ Len(papers0) >= 2
    /\ DOMAIN evals # {}
    /\ \E i \in 1..Len(papers0) :
         /\ Len(papers0[i].authors) > 3
         /\ WordCount(papers0[i].abstract) > 150
         /\ WordCount(ret.papers[i].abstract) = 150

(***************************************************************************)
(* Properties of the Report Composer.                                      *)
(***************************************************************************)
IsReport == op \in {"generate_report", "generate_html_report"}

\* the excluded count the status message states (it says nothing when 0)
ExcludedReported == IF "excluded" \in DOMAIN ret THEN ret.excluded ELSE 0

\* record i is the first of the store with its lowercased, trimmed title
FirstOccurrence(store, i) ==
    \A j \in 1..(i - 1) : strip(lower(store[j].title)) # strip(lower(store[i].title))

\* the indices of the records the composer's dedup step must retain (a None
\* title has no lowercased, trimmed form)
Retained(store) ==
    {i \in 1..Len(store) : store[i].title # NoneValue /\ FirstOccurrence(store, i)}

\* what a report call rendered: nothing when it returned an error or raised
Rendered == IF "rendered" \in DOMAIN ret THEN ret.rendered ELSE << >>

\* the number of entries of lst equal to x
Count(lst, x) == Cardinality({k \in 1..Len(lst) : lst[k] = x})

\* the report's records (those rendered and those counted as excluded) are
\* the records of the store at the indices idx, one for one
ReportHolds(idx) ==
    /\ Len(Rendered) + ExcludedReported = Cardinality(idx)
    /\ \A k \in 1..Len(Rendered) :
         Count(Rendered, Rendered[k]) = Cardinality({i \in idx : papers[i] = Rendered[k]})

\* C11: a report tool called on a non-empty store retains exactly one record
\* per distinct lowercased, trimmed title, the first in store order: the
\* rendered and the excluded papers together are those first occurrences, so
\* two records whose titles differ by case and surrounding blanks give one.
C11_ReportKeepsFirstOccurrences ==
    (IsReport /\ papers0 # << >>) => ReportHolds(Retained(papers0))

\* C11 on the stores whose titles are all strings
C11_ReportKeepsFirstOccurrencesOnStrTitles ==
    (IsReport /\ papers0 # << >> /\ ~HasNoneTitle(papers0)) =>
        /\ ret.kind = "generated"
        /\ ReportHolds(Retained(papers0))

\* a report of a store that holds two titles differing by case and blanks
ReportDroppedDuplicate ==
    /\ IsReport
    /\ ret.kind = "generated"
    /\ \E i, j \in 1..Len(papers0) :
         /\ i < j
         /\ papers0[i].title # papers0[j].title
         /\ strip(lower(papers0[i].title)) = strip(lower(papers0[j].title))
         /\ j \notin Retained(papers0)

\* C12: the papers a report renders are in descending order of (rank,
\* citation count): of two consecutive ones the earlier has the higher rank,
\* or the same rank and at least as many citations.
C12_RenderedOrder ==
    (IsReport /\ ret.kind = "generated") =>
        \A k \in 1..(Len(ret.rendered) - 1) :
            \/ ret.rendered[k].critic_rank > ret.rendered[k + 1].critic_rank
            \/ /\ ret.rendered[k].critic_rank = ret.rendered[k + 1].critic_rank
               /\ ret.rendered[k].citation_count >= ret.rendered[k + 1].citation_count

\* the position in the store of a rendered paper
StoreIndex(p) == CHOOSE i \in 1..Len(papers) : papers[i] = p

\* a report of three papers: the first outranks the second although it has
\* fewer citations, the second ties with the third on rank and has more
\* citations, and the store held them in another order
C12_Witness ==
    /\ IsReport
    /\ ret.kind = "generated"
    /\ Len(ret.rendered) = 3
    /\ ret.rendered[1].critic_rank > ret.rendered[2].critic_rank
    /\ ret.rendered[1].citation_count < ret.rendered[2].citation_count
    /\ ret.rendered[2].critic_rank = ret.rendered[3].critic_rank
    /\ ret.rendered[2].citation_count > ret.rendered[3].citation_count
    /\ StoreIndex(ret.rendered[2]) > StoreIndex(ret.rendered[3])

\* the lowercased, trimmed title of record i, the key of the join
JoinKey(store, i) == strip(lower(store[i].title))

\* the action the ledger gives record i of the store the call started on
JoinedAction(i) ==
    IF JoinKey(papers0, i) \in DOMAIN evals0
    THEN evals0[JoinKey(papers0, i)].recommended_action
    ELSE "include"

\* C13: no paper whose joined action is "exclude" is rendered, every retained
\* paper whose action is not "exclude" is rendered, and the excluded count
\* reported is the number of retained papers minus the number rendered.
C13_ExcludedNeverRendered ==
    (IsReport /\ papers0 # << >>) =>
        /\ \A k \in 1..Len(Rendered) : Rendered[k].critic_action # "exclude"
        /\ \A i \in Retained(papers0) :
             IF JoinedAction(i) = "exclude"
             THEN \A k \in 1..Len(Rendered) : Rendered[k] # papers[i]
             ELSE \E k \in 1..Len(Rendered) : Rendered[k] = papers[i]
        /\ ExcludedReported = Cardinality(Retained(papers0)) - Len(Rendered)

\* C13 on the stores whose titles are all strings
C13_ExcludedNeverRenderedOnStrTitles ==
    (IsReport /\ papers0 # << >> /\ ~HasNoneTitle(papers0)) =>
        /\ \A k \in 1..Len(Rendered) : Rendered[k].critic_action # "exclude"
        /\ \A i \in Retained(papers0) :
             IF JoinedAction(i) = "exclude"
             THEN \A k \in 1..Len(Rendered) : Rendered[k] # papers[i]
             ELSE \E k \in 1..Len(Rendered) : Rendered[k] = papers[i]
        /\ ExcludedReported = Cardinality(Retained(papers0)) - Len(Rendered)

\* a report that rendered two papers, in the order [4.8, 3.0], and counted one
\* excluded
ReportExcludedOne ==
    /\ IsReport
    /\ ret.kind = "generated"
    /\ Len(ret.rendered) = 2
    /\ ret.rendered[1].critic_rank = 480
    /\ ret.rendered[2].critic_rank = 300
    /\ ExcludedReported = 1

\* C14: a retained paper whose key is not in the ledger is rendered with rank
\* 3.0, action "include" and no evaluation attached; an evaluation whose key
\* matches no paper is attached to no rendered paper.
C14_JoinMissNeutral ==
    (IsReport /\ papers0 # << >>) =>
        /\ \A i \in Retained(papers0) :
             JoinKey(papers0, i) \notin DOMAIN evals0 =>
                 /\ Get(papers[i], "critic_rank", 0) = 300
                 /\ Get(papers[i], "critic_action", "None") = "include"
                 /\ "critic_evaluation" \notin DOMAIN papers[i]
                 /\ \E k \in 1..Len(Rendered) : Rendered[k] = papers[i]
        /\ \A k \in 1..Len(Rendered) :
             "critic_evaluation" \in DOMAIN Rendered[k] =>
                 /\ strip(lower(Rendered[k].title)) \in DOMAIN evals0
                 /\ Rendered[k].critic_evaluation = evals0[strip(lower(Rendered[k].title))]

\* C14 on the stores whose titles are all strings, where the call also
\* succeeds whatever the ledger holds
C14_JoinMissNeutralOnStrTitles ==
    (IsReport /\ papers0 # << >> /\ ~HasNoneTitle(papers0)) =>
        /\ ret.kind = "generated"
        /\ \A i \in Retained(papers0) :
             JoinKey(papers0, i) \notin DOMAIN evals0 =>
                 /\ Get(papers[i], "critic_rank", 0) = 300
                 /\ Get(papers[i], "critic_action", "None") = "include"
                 /\ "critic_evaluation" \notin DOMAIN papers[i]
                 /\ \E k \in 1..Len(Rendered) : Rendered[k] = papers[i]
        /\ \A k \in 1..Len(Rendered) :
             "critic_evaluation" \in DOMAIN Rendered[k] =>
                 /\ strip(lower(Rendered[k].title)) \in DOMAIN evals0
                 /\ Rendered[k].critic_evaluation = evals0[strip(lower(Rendered[k].title))]

\* a report of a store with a paper the ledger does not know, while the
\* ledger holds an evaluation that matches no paper of the store
ReportJoinMiss ==
    /\ IsReport
    /\ ret.kind = "generated"
    /\ \E i \in Retained(papers0) : JoinKey(papers0, i) \notin DOMAIN evals0
    /\ \E key \in DOMAIN evals0 : \A i \in 1..Len(papers0) : JoinKey(papers0, i) # key

\* C15: on an empty store generate_report and generate_html_report return an
\* error string (they do not raise), write no file and leave both stores as
\* they were.
C15_EmptyCollectionError ==
    (IsReport /\ papers0 = << >>) =>
        /\ ret.kind = "error"
        /\ ret.what = "Error: Collection is empty."
        /\ files = files0
        /\ papers = papers0
        /\ evals = evals0

\* a report tool was called on the empty store while the ledger held an
\* evaluation and no report had been written
C15_Witness ==
    /\ IsReport
    /\ papers0 = << >>
    /\ DOMAIN evals0 # {}
    /\ files0 = {}

\* the outcome of a report call is the one the composition c stands for
SameOutcome(c) ==
    IF c.raised THEN ret.kind = "raise"
    ELSE /\ ret.kind = "generated"
         /\ ret.rendered = c.included_papers
         /\ ret.papers = Len(c.included_papers)
         /\ ExcludedReported = c.excluded_count
         /\ papers = c.store

\* C16: on every store and ledger the PDF composer and the HTML composer work
\* out the same included papers, in the same order, with the same rank and
\* action each, and the same excluded count: what generate_report did is what
\* the code of generate_html_report gives on the state the call started in,
\* and the other way round.
C16_ComposersAgree ==
    /\ (op = "generate_report" /\ papers0 # << >>) =>
           SameOutcome(HtmlCompose(papers0, evals0))
    /\ (op = "generate_html_report" /\ papers0 # << >>) =>
           SameOutcome(PdfCompose(papers0, evals0))

\* an HTML report of a store of three papers: the one the ledger excludes is
\* counted, the other two are rendered in the order [4.8, 3.0], the second
\* of them a join-miss
C16_Witness ==
    /\ op = "generate_html_report"
    /\ ret.kind = "generated"
    /\ Len(papers0) = 3
    /\ Len(ret.rendered) = 2
    /\ ret.rendered[1].critic_rank = 480
    /\ ret.rendered[2].critic_rank = 300
    /\ "critic_evaluation" \notin DOMAIN ret.rendered[2]
    /\ ExcludedReported = 1

(***************************************************************************)
(* Properties of the reset.                                                *)
(***************************************************************************)
SearchOps == {"SemanticScholarTool.search", "PubMedTool.search", "ArXivTool.search",
              "OpenAlexTool.search"}

\* C17: after clear_papers both stores are empty, and the tool call that comes
\* next sees them empty: the snapshot returns the error marker, both report
\* tools the empty-collection error, dedup reports nothing to deduplicate, an
\* ingestion or a search starts from nothing; a workflow run begins with that
\* reset, and a search only appends inside a run.
C17_ClearedBeforeRun ==
    [][/\ op' = "clear_papers" => (papers' = << >> /\ evals' = EmptyDict)
       /\ (op = "clear_papers" /\ op' # op) =>
              /\ papers0' = << >>
              /\ evals0' = EmptyDict
              /\ op' = "get_papers_for_evaluation" =>
                     ("error" \in DOMAIN ret' /\ "papers" \notin DOMAIN ret')
              /\ op' \in {"generate_report", "generate_html_report"} =>
                     (ret'.kind = "error" /\ files' = files)
              /\ op' = "deduplicate_collection" => ret'.kind = "empty"
       /\ (phase = "idle" /\ phase' # "idle") =>
              (op' = "clear_papers" /\ papers' = << >> /\ evals' = EmptyDict)
       /\ Len(papers') > Len(papers) => (op' \in SearchOps /\ phase # "idle")
      ]_vars

\* in a second run, which began by clearing the stores the first one had
\* filled and reported on, an agent's tool finds the collection empty
C17_Witness ==
    /\ op \in {"get_papers_for_evaluation", "deduplicate_collection", "generate_report"}
    /\ papers0 = << >>
    /\ evals0 = EmptyDict
    /\ files0 # {}
    /\ phase # "idle"

(***************************************************************************)
(* Properties of the search collaborators.                                 *)
(***************************************************************************)
\* C18: every record of the Paper Store has a title that is a string, never
\* None: a result that comes without a title is stored as "Untitled",
\* whichever of the four search tools appended it.
C18_TitlePresent ==
    \A i \in 1..Len(papers) :
        /\ "title" \in DOMAIN papers[i]
        /\ papers[i].title # NoneValue
        /\ papers[i].title # Missing

\* C18 for the records PubMedTool.search and ArXivTool.search append
C18_TitlePresentPubMedArXiv ==
    \A i \in 1..Len(papers) :
        papers[i].source \in {"PubMed", "arXiv"} => papers[i].title # NoneValue

\* a Semantic Scholar result without a title attribute was stored as "Untitled"
UntitledStored ==
    \E i \in 1..Len(papers) :
        papers[i].source = "Semantic Scholar" /\ papers[i].title = Untitled

(***************************************************************************)
(* Properties of the Text Normalizer.  The words of a string are read off  *)
(* its characters: a word starts at a non-blank character that follows a   *)
(* blank or nothing, and ends at one that precedes a blank or nothing.     *)
(***************************************************************************)
WordStarts(s) ==
    {i \in 1..Len(s) : ~isspace(s[i]) /\ (i = 1 \/ isspace(s[i - 1]))}

WordEnds(s) ==
    {i \in 1..Len(s) : ~isspace(s[i]) /\ (i = Len(s) \/ isspace(s[i + 1]))}

\* the number of whitespace-separated words of a text; None has none
NumWords(s) == IF s = NoneValue THEN 0 ELSE Cardinality(WordStarts(s))

\* the k-th word of s, for k in 1..NumWords(s)
Word(s, k) ==
    LET b == CHOOSE i \in WordStarts(s) : Cardinality({j \in WordStarts(s) : j <= i}) = k
        e == CHOOSE i \in WordEnds(s) : Cardinality({j \in WordEnds(s) : j <= i}) = k
    IN  SubSeq(s, b, e)

\* s is words joined by single blanks: no blank leads, trails or follows a blank
SingleSpaced(s) ==
    \A i \in 1..Len(s) :
        isspace(s[i]) => /\ i # 1
                         /\ i # Len(s)
                         /\ ~isspace(s[i + 1])

\* result is the first n words of text joined by single blanks, then "..."
IsFirstWords(result, text, n) ==
    /\ Len(result) >= Len(Ellipsis)
    /\ SubSeq(result, Len(result) - Len(Ellipsis) + 1, Len(result)) = Ellipsis
    /\ LET head == SubSeq(result, 1, Len(result) - Len(Ellipsis))
       IN  /\ SingleSpaced(head)
           /\ NumWords(head) = n
           /\ \A k \in 1..n : Word(head, k) = Word(text, k)

\* the rules of truncate_abstract, on the call that was made
TruncateRules ==
    /\ arg.text = Placeholder => ret = arg.text
    /\ (arg.text # Placeholder /\ NumWords(arg.text) > arg.n)
           => IsFirstWords(ret, arg.text, arg.n)
    /\ (arg.text # Placeholder /\ NumWords(arg.text) <= arg.n) => ret = arg.text
    /\ truncate_abstract(ret, arg.n) = ret

\* C19 as stated: a text of more than n words gives its first n words joined
\* by single blanks and followed by "...", any other text is returned
\* unchanged, and so is the placeholder for every n; the result never has more
\* than n words when the text did, and truncating the result again with the
\* same n changes nothing.
C19_TruncateAsClaimed ==
    op = "truncate_abstract" =>
        /\ TruncateRules
        /\ NumWords(arg.text) > arg.n => NumWords(ret) <= arg.n

\* C19 amended: the same rules, and the result has at most n words when the
\* text had more, unless the text is the placeholder or n is 0 (the "..." of
\* an empty cut is a word of its own).
C19_TruncateWithinLimit ==
    op = "truncate_abstract" =>
        /\ TruncateRules
        /\ (arg.text # Placeholder /\ arg.n >= 1 /\ NumWords(arg.text) > arg.n)
               => NumWords(ret) <= arg.n

\* a text of two words with a leading blank was cut to its first word
C19_Witness ==
    /\ op = "truncate_abstract"
    /\ arg.text = <<" ", "a", " ", "b">>
    /\ arg.n = 1
    /\ ret = <<"a", ".", ".", ".">>

\* the number of (position, word) pairs of the index with a position below v
RECURSIVE PairsBelow(_, _)
PairsBelow(index, v) ==
    IF index = << >> THEN 0
    ELSE Cardinality({i \in 1..Len(Head(index).positions) : Head(index).positions[i] < v})
         + PairsBelow(Tail(index), v)

\* the number of pairs of the index that are (v, w)
RECURSIVE PairsAt(_, _, _)
PairsAt(index, v, w) ==
    IF index = << >> THEN 0
    ELSE (IF Head(index).word = w
          THEN Cardinality({i \in 1..Len(Head(index).positions) :
                                Head(index).positions[i] = v})
          ELSE 0)
         + PairsAt(Tail(index), v, w)

\* the index is the inverted index of the word sequence ws: its words are
\* those of ws, each with exactly the positions (from 0) where ws has it
BuiltFrom(index, ws) ==
    /\ {index[i].word : i \in 1..Len(index)} = {ws[k] : k \in 1..Len(ws)}
    /\ \A i \in 1..Len(index) :
           /\ {index[i].positions[j] : j \in 1..Len(index[i].positions)}
                  = {k - 1 : k \in {k \in 1..Len(ws) : ws[k] = index[i].word}}
           /\ \A j1, j2 \in 1..Len(index[i].positions) :
                  index[i].positions[j1] = index[i].positions[j2] => j1 = j2

\* C20: reconstruct_abstract returns the words of all (position, word) pairs
\* of the index in ascending order of position, joined by single blanks: the
\* words at a position fill the places after those of all lower positions, a
\* word as often as it has the position; {a:[1], quick:[0]} gives "quick a";
\* an empty or absent index gives the placeholder; the index of a word
\* sequence gives that sequence back.
C20_ReconstructOrder ==
    op = "reconstruct_abstract" =>
        LET index == arg.inverted_index
            quick == <<"q", "u", "i", "c", "k">>
        IN  /\ index = << >> => ret = Placeholder
            /\ index # << >> =>
                   /\ SingleSpaced(ret)
                   /\ NumWords(ret) = PairsBelow(index, MaxPos + 1)
                   /\ \A v \in 0..MaxPos : \A w \in IndexWords :
                          Cardinality({k \in (PairsBelow(index, v) + 1)..PairsBelow(index, v + 1) :
                                           Word(ret, k) = w})
                              = PairsAt(index, v, w)
            /\ index = <<[word |-> <<"a">>, positions |-> <<1>>],
                         [word |-> quick, positions |-> <<0>>]>>
                   => ret = quick \o <<" ", "a">>
            /\ \A ws \in SeqsUpTo(IndexWords, MaxPos + 1) \ {<< >>} :
                   BuiltFrom(index, ws) =>
                       /\ SingleSpaced(ret)
                       /\ NumWords(ret) = Len(ws)
                       /\ \A k \in 1..Len(ws) : Word(ret, k) = ws[k]

\* the index {a: [2, 0], quick: [1]} was reconstructed to "a quick a"
C20_Witness ==
    /\ op = "reconstruct_abstract"
    /\ arg.inverted_index = <<[word |-> <<"a">>, positions |-> <<2, 0>>],
                              [word |-> <<"q", "u", "i", "c", "k">>, positions |-> <<1>>]>>
    /\ ret = <<"a", " ", "q", "u", "i", "c", "k", " ", "a">>

\* ret holds "<", ">" or an "&" that does not start an escape
Unescaped(s) ==
    \E i \in 1..Len(s) :
        \/ s[i] \in {"<", ">"}
        \/ /\ s[i] = "&"
           /\ \A e \in Entities : ~StartsWith(s, i, e.ref)

\* text holds a character that is not whitespace
Visible(text) ==
    text # NoneValue /\ \E i \in 1..Len(text) : ~isspace(text[i])

\* C21: whatever the input, clean_text returns no unescaped "<", ">" or bare
\* "&" and never None; it never returns the empty string for an input that
\* is not None and holds a visible character; an empty or missing input gives
\* the placeholder.
C21_CleanTextSafe ==
    op = "clean_text" =>
        /\ ret # NoneValue
        /\ ~Unescaped(ret)
        /\ Visible(arg.text) => ret # << >>
        /\ (arg.text = NoneValue \/ arg.text = << >>) => ret = Placeholder

\* C21 without the texts that are markup only: the result is escaped, not
\* None, the placeholder for no input, and not empty when a visible
\* character of the text is left once the markup is taken out
C21_CleanTextEscaped ==
    op = "clean_text" =>
        /\ ret # NoneValue
        /\ ~Unescaped(ret)
        /\ (arg.text # NoneValue /\ Visible(get_text(arg.text, 1))) => ret # << >>
        /\ (arg.text = NoneValue \/ arg.text = << >>) => ret = Placeholder

\* a text of markup, entity and fullwidth sign was cleaned: the tag is gone,
\* the other two are escaped
CleanedMarkup ==
    /\ op = "clean_text"
    /\ arg.text = <<"<", "b", ">", "&", "a", "m", "p", ";", FullwidthLess>>
    /\ ret = <<"&", "a", "m", "p", ";", "&", "l", "t", ";">>

(***************************************************************************)
(* Properties of the rendered document.                                    *)
(***************************************************************************)
\* a report call wrote a document
Wrote == IsReport /\ doc.kind # "none"

\* the star marker of a rank (in hundredths): 2 from 4.5, 1 from 4.0, else 0
StarTier(rank) == IF rank >= 450 THEN 2 ELSE IF rank >= 400 THEN 1 ELSE 0

\* the entry shows the rank, to the nearest tenth
ShowsRank(entry, rank) ==
    /\ "rank" \in DOMAIN entry
    /\ 10 * entry.rank - rank \in -5..5

\* the table of contents has one entry per rendered paper, numbered from 1 in
\* rendered order, each with the star marker of its paper's rank
TocStarred ==
    /\ Len(doc.toc) = Len(Rendered)
    /\ \A k \in 1..Len(Rendered) :
           /\ doc.toc[k].number = k
           /\ doc.toc[k].title = Take(Rendered[k].title, 80) \o Ellipsis
           /\ doc.toc[k].stars = StarTier(Rendered[k].critic_rank)

\* C22 as stated: in both formats the table of contents has one entry per
\* included paper, numbered 1..k in rendered order, and every entry carries
\* the star marker of the paper's rank and the paper's numeric rank, also for
\* a paper with no ledger entry.
C22_TocAsClaimed ==
    Wrote =>
        /\ TocStarred
        /\ \A k \in 1..Len(Rendered) : ShowsRank(doc.toc[k], Rendered[k].critic_rank)

\* C22 amended: the entries are as stated, but the PDF shows the numeric rank
\* only of a paper joined to a ledger entry; the HTML shows it for every paper.
C22_TocRankWhenEvaluated ==
    Wrote =>
        /\ TocStarred
        /\ \A k \in 1..Len(Rendered) :
               IF doc.kind = "html" \/ "critic_evaluation" \in DOMAIN Rendered[k]
               THEN ShowsRank(doc.toc[k], Rendered[k].critic_rank)
               ELSE "rank" \notin DOMAIN doc.toc[k]

\* a PDF whose table of contents has a double-star entry, a single-star
\* entry of rank 4.46 shown as 4.5, and an entry of a paper without ledger
\* entry, which has neither star nor rank
C22_Witness ==
    /\ op = "generate_report"
    /\ doc.kind = "pdf"
    /\ Len(doc.toc) = 3
    /\ doc.toc[1].stars = 2 /\ doc.toc[1].rank = 48
    /\ doc.toc[2].stars = 1 /\ doc.toc[2].rank = 45
    /\ Rendered[2].critic_rank = 446
    /\ doc.toc[3].stars = 0 /\ "rank" \notin DOMAIN doc.toc[3]
    /\ "critic_evaluation" \notin DOMAIN Rendered[3]

\* the qualitative label of a score (in hundredths) by the four buckets
FourBucket(score) ==
    IF score >= 450 THEN "EXCEPTIONAL"
    ELSE IF score >= 400 THEN "EXCELLENT"
    ELSE IF score >= 350 THEN "GOOD"
    ELSE "ACCEPTABLE"

\* C23 as stated: in the bibliography the title line of each paper carries
\* the star tier of its table-of-contents entry and the label of the four
\* buckets on the paper's score.
C23_TitleLineAsClaimed ==
    Wrote =>
        /\ Len(doc.bibliography) = Len(Rendered)
        /\ \A k \in 1..Len(Rendered) :
               /\ doc.bibliography[k].title_text.stars = doc.toc[k].stars
               /\ doc.bibliography[k].title_text.label = FourBucket(Rendered[k].critic_rank)

\* C23 amended: every entry of the bibliography carries the star tier of its
\* table-of-contents entry, the PDF on the title line, the HTML on the rank
\* label above it.  The PDF title line is labelled EXCEPTIONAL with the double
\* star, HIGHLY RATED with the single star, and has the entry number and no
\* label otherwise; the label of the four buckets is on the critic assessment
\* line, which a PDF entry has when its paper is joined to a ledger entry,
\* chosen on that entry's score.  An HTML entry carries no qualitative label.
C23_LabelsByFormat ==
    Wrote =>
        /\ Len(doc.bibliography) = Len(Rendered)
        /\ \A k \in 1..Len(Rendered) :
               LET entry == doc.bibliography[k]
                   paper == Rendered[k]
                   joined == "critic_evaluation" \in DOMAIN paper
               IN  IF doc.kind = "pdf"
                   THEN /\ entry.title_text.stars = doc.toc[k].stars
                        /\ entry.title_text.label =
                               (CASE doc.toc[k].stars = 2 -> "EXCEPTIONAL"
                                  [] doc.toc[k].stars = 1 -> "HIGHLY RATED"
                                  [] OTHER -> "")
                        /\ ("number" \in DOMAIN entry.title_text) = (doc.toc[k].stars = 0)
                        /\ ("score_label" \in DOMAIN entry) = joined
                        /\ joined =>
                               entry.score_label = FourBucket(paper.critic_evaluation.overall_score)
                   ELSE /\ entry.rank_label.stars = doc.toc[k].stars
                        /\ entry.title_text.stars = 0
                        /\ entry.title_text.label = ""
                        /\ "score_label" \notin DOMAIN entry

\* a PDF with an EXCEPTIONAL title line, a HIGHLY RATED title line whose
\* assessment says EXCELLENT, and a plain title line of a paper without
\* ledger entry
C23_Witness ==
    /\ op = "generate_report"
    /\ doc.kind = "pdf"
    /\ Len(doc.bibliography) = 3
    /\ doc.bibliography[1].title_text.label = "EXCEPTIONAL"
    /\ doc.bibliography[2].title_text.label = "HIGHLY RATED"
    /\ doc.bibliography[2].score_label = "EXCELLENT"
    /\ doc.bibliography[3].title_text.label = ""
    /\ "score_label" \notin DOMAIN doc.bibliography[3]

\* PDFs whose assessment lines say GOOD and ACCEPTABLE
GoodAndAcceptable ==
    /\ op = "generate_report"
    /\ doc.kind = "pdf"
    /\ \E k \in 1..Len(doc.bibliography) :
           /\ "score_label" \in DOMAIN doc.bibliography[k]
           /\ doc.bibliography[k].score_label = "GOOD"
    /\ \E k \in 1..Len(doc.bibliography) :
           /\ "score_label" \in DOMAIN doc.bibliography[k]
           /\ doc.bibliography[k].score_label = "ACCEPTABLE"

(***************************************************************************)
(* What the tools leave alone.                                             *)
(***************************************************************************)
CriticFields == {"critic_rank", "critic_action", "critic_evaluation"}

\* the record without its critic fields
BaseFields(p) == [f \in DOMAIN p \ CriticFields |-> p[f]]

\* a is b with some of its entries left out, the others in b's order
RECURSIVE IsSubsequence(_, _)
IsSubsequence(a, b) ==
    IF a = << >> THEN TRUE
    ELSE IF b = << >> THEN FALSE
    ELSE IF Head(a) = Head(b) THEN IsSubsequence(Tail(a), Tail(b))
    ELSE IsSubsequence(a, Tail(b))

\* C24: a report tool leaves the ledger and the store's length, order and
\* membership as they were; a record it changes is the first of its
\* lowercased, trimmed title, and what changes are its critic fields:
\* critic_rank and critic_action, and critic_evaluation when the ledger has
\* its key; a report that is written has done so for every such first
\* record.  No other tool changes a record: a search appends to the store, a
\* deduplication leaves records out, ingestion and the snapshot leave the
\* store as it is.
C24_RecordsOnlyGainCriticFields ==
    /\ IsReport =>
           /\ evals = evals0
           /\ Len(papers) = Len(papers0)
           /\ \A i \in 1..Len(papers) :
                  /\ BaseFields(papers[i]) = BaseFields(papers0[i])
                  /\ i \notin Retained(papers0) => papers[i] = papers0[i]
                  /\ (papers[i] # papers0[i] \/ (i \in Retained(papers0) /\ ret.kind = "generated"))
                         => /\ i \in Retained(papers0)
                            /\ {"critic_rank", "critic_action"} \subseteq DOMAIN papers[i]
                            /\ IF JoinKey(papers0, i) \in DOMAIN evals0
                               THEN /\ "critic_evaluation" \in DOMAIN papers[i]
                                    /\ papers[i].critic_evaluation = evals0[JoinKey(papers0, i)]
                               ELSE Get(papers[i], "critic_evaluation", "None")
                                        = Get(papers0[i], "critic_evaluation", "None")
    /\ op \in SearchOps =>
           /\ Len(papers) >= Len(papers0)
           /\ SubSeq(papers, 1, Len(papers0)) = papers0
    /\ op = "deduplicate_collection" => IsSubsequence(papers, papers0)
    /\ op \in {"evaluate_papers", "get_papers_for_evaluation"} => papers = papers0

\* a report on a store of two records of one lowercased, trimmed title: the
\* first got the ledger's evaluation, the second is as it was
C24_Witness ==
    /\ IsReport
    /\ ret.kind = "generated"
    /\ Len(papers0) = 2
    /\ JoinKey(papers0, 1) = JoinKey(papers0, 2)
    /\ DOMAIN papers0[1] \cap CriticFields = {}
    /\ "critic_evaluation" \in DOMAIN papers[1]
    /\ papers[2] = papers0[2]

\* a deduplication and a search met records that carry critic fields
CriticFieldsKept ==
    /\ op \in SearchOps \cup {"deduplicate_collection"}
    /\ Len(papers0) >= 1
    /\ "critic_rank" \in DOMAIN papers0[1]
    /\ papers # << >>
    /\ papers[1] = papers0[1]

(***************************************************************************)
(* Properties of the workflow's phases.                                    *)
(***************************************************************************)
\* the records of the store that carry the collaborator's source, in store order
OwnRecords(c) == SelectSeq(papers, LAMBDA p : p.source = c)

\* the counts of the collaborators of cs, added up
RECURSIVE CountSum(_)
CountSum(cs) ==
    IF cs = {} THEN 0
    ELSE LET c == CHOOSE c \in cs : TRUE
         IN  team[c].count + CountSum(cs \ {c})

\* C25: however the four search calls of the parallel research phase
\* interleave, no append is lost or made twice: all through the phase, and so
\* when it ends, the store holds of each collaborator exactly the records it
\* appended, in the order it appended them, and nothing else; its length is
\* the sum of the counts the four calls report.
C25_NoAppendLost ==
    phase = "ParallelResearchTeam" =>
        /\ \A c \in Team : OwnRecords(c) = team[c].added
        /\ \A i \in 1..Len(papers) : papers[i].source \in Team
        /\ Len(papers) = CountSum(Team)
        /\ \A c \in Team : team[c].count = Len(team[c].added)

\* the phase can end: the four calls have returned without error, and the
\* second arXiv record was appended after another collaborator's record that
\* came after the first arXiv record
C25_Witness ==
    /\ phase = "ParallelResearchTeam"
    /\ \A c \in Team : team[c].status = "done"
    /\ Len(papers) = 5
    /\ papers[1].source = "arXiv"
    /\ papers[2].source = "OpenAlex"
    /\ papers[3].source = "arXiv"

\* the place of a sub-agent in ResearchSystem
Place(agent) == CHOOSE k \in 1..Len(Agents) : Agents[k] = agent

\* a step of the tool of that name
ToolStep(name) == op' = name /\ phase' = phase

\* C26: the phases of a run are ordered.  The store is deduplicated only in
\* AggregatorPhase1 and with no search call running, the snapshot is taken
\* only in CriticFetcher, evaluations are ingested only in CriticEvaluator and
\* a report is generated only in ReportGeneration; the run moves from a
\* sub-agent to the next one only, and leaves ParallelResearchTeam only when
\* every search call has returned; no search call takes a step, and no record
\* is appended, outside ParallelResearchTeam.
C26_PhasesOrdered ==
    [][/\ ToolStep("deduplicate_collection") =>
               phase = "AggregatorPhase1" /\ TeamJoined
       /\ ToolStep("get_papers_for_evaluation") => phase = "CriticFetcher"
       /\ ToolStep("evaluate_papers") => phase = "CriticEvaluator"
       /\ ToolStep("generate_report") \/ ToolStep("generate_html_report") =>
               phase = "ReportGeneration"
       /\ Len(papers') > Len(papers) => phase = "ParallelResearchTeam"
       /\ (phase' = phase /\ team' # team) => phase = "ParallelResearchTeam"
       /\ phase' # phase =>
               \/ phase = "idle" /\ phase' = Agents[1]
               \/ phase # "idle" /\ phase' = "idle" /\ TeamJoined
               \/ /\ phase # "idle" /\ phase' # "idle"
                  /\ Place(phase') = Place(phase) + 1
                  /\ TeamJoined
      ]_vars

\* a run has come to its last phase: the search calls returned, of the
\* records titled "a", " A" and "A" deduplication kept the one appended first
\* and both arXiv records, an evaluation was ingested and a report was written
C26_Witness ==
    /\ phase = "ReportGeneration"
    /\ TeamJoined
    /\ Len(papers) = 3
    /\ Len(OwnRecords("arXiv")) = 2
    /\ Len(OwnRecords("PubMed")) = 1
    /\ evals # EmptyDict
    /\ doc.kind # "none"

(***************************************************************************)
(* Properties of the page callbacks.                                       *)
(***************************************************************************)
IsPageCallback == op \in {"add_first_page_elements", "add_later_pages_elements"}

\* the header and footer calls are made, in order, right before the last call
HeaderFooterDrawn(calls) ==
    /\ Len(calls) > Len(HeaderFooter)
    /\ SubSeq(calls, Len(calls) - Len(HeaderFooter), Len(calls) - 1) = HeaderFooter

\* C27: when a page callback returns it has called restoreState as often as
\* saveState, whether the image was drawn or one of the steps of opening and
\* drawing it failed; on a failure the image is not drawn and a diagnostic is
\* printed; the header and footer are drawn in either case.
C27_CanvasBalanced ==
    IsPageCallback =>
        /\ Count(ret.calls, "restoreState") = Count(ret.calls, "saveState")
        /\ arg # "none" => /\ Count(ret.calls, "drawImage") = 0
                           /\ Count(ret.calls, "print") = 1
        /\ arg = "none" => /\ Count(ret.calls, "drawImage") = 1
                           /\ Count(ret.calls, "print") = 0
        /\ HeaderFooterDrawn(ret.calls)

\* the same of the later-pages callback alone, and of the first-page callback
\* when the failure is in opening the image
C27_CanvasBalancedUnlessDrawFails ==
    (IsPageCallback /\ ~(op = "add_first_page_elements"
                         /\ arg \in {"ImageReader", "drawImage"})) =>
        /\ Count(ret.calls, "restoreState") = Count(ret.calls, "saveState")
        /\ arg # "none" => /\ Count(ret.calls, "drawImage") = 0
                           /\ Count(ret.calls, "print") = 1
        /\ HeaderFooterDrawn(ret.calls)

(***************************************************************************)
(* Properties across the store's and the composer's deduplication.         *)
(***************************************************************************)
\* key = p['title'].lower().strip()
ComposerKey(title) == strip(lower(title))

\* clean_title of deduplicate_collection
StoreKey(title) == CleanTitle(lower(title))

\* deduplicate_collection leaves the store as it is: the store is as a
\* deduplicate_collection call has left it
Deduplicated(store) ==
    LET loop == DedupLoop(store, {}, << >>)
    IN  ~loop.raised /\ loop.unique_papers = store

\* the records deduplicate_collection keeps without looking at the others
Unverifiable(store) ==
    {i \in 1..Len(store) : StoreKey(store[i].title) \in {<< >>, untitled}}

\* C28: two titles with the same composer key (lowercased, trimmed) have the
\* same store key (lowercased, letters and digits only).  So when a report
\* tool runs on a store as deduplicate_collection has left it, the records
\* its own deduplication drops are all among those whose store key is empty
\* or "untitled", and when the store has no such record the composer's
\* deduplicated list (the rendered and the excluded papers) is as long as the
\* store.
C28_ComposerKeyRefinesStoreKey ==
    /\ \A i, j \in 1..Len(papers) :
         (/\ papers[i].title # NoneValue
          /\ papers[j].title # NoneValue
          /\ ComposerKey(papers[i].title) = ComposerKey(papers[j].title))
         => StoreKey(papers[i].title) = StoreKey(papers[j].title)
    /\ (IsReport /\ papers0 # << >> /\ Deduplicated(papers0)) =>
         /\ ret.kind = "generated"
         /\ \E idx \in SUBSET (1..Len(papers0)) :
              /\ ReportHolds(idx)
              /\ (1..Len(papers0)) \ idx \subseteq Unverifiable(papers0)
         /\ Unverifiable(papers0) = {} =>
              Len(Rendered) + ExcludedReported = Len(papers0)

\* a report on a deduplicated store of three records, two of them with one
\* title that has no letter or digit, or is "Untitled": the composer dropped
\* one of the two
C28_Witness ==
    /\ IsReport
    /\ Deduplicated(papers0)
    /\ Len(papers0) = 3
    /\ Cardinality(Unverifiable(papers0)) = 2
    /\ ret.kind = "generated"
    /\ Len(Rendered) + ExcludedReported = 2

\* two titles with the same store key and different composer keys, "a" and
\* "a-": the converse does not hold
StoreKeyCoarser ==
    \E i, j \in 1..Len(papers) :
        /\ papers[i].title # NoneValue
        /\ papers[j].title # NoneValue
        /\ StoreKey(papers[i].title) = StoreKey(papers[j].title)
        /\ ComposerKey(papers[i].title) # ComposerKey(papers[j].title)

(***************************************************************************)
(* Properties of the round trip from snapshot to report.                   *)
(***************************************************************************)
\* the payload evaluates every paper of the store under the title the
\* snapshot gives for it
AnswersSnapshot(evaluations, store) ==
    /\ evaluations.kind = "list"
    /\ store # << >>
    /\ Len(evaluations.items) = Len(store)
    /\ \A i \in 1..Len(store) :
         Get(evaluations.items[i], "paper_title", Missing)
             = PapersForEvaluation(store).papers[i].title

\* record p is joined to the ledger entry under key
JoinedTo(p, ledger, key) ==
    /\ key \in DOMAIN ledger
    /\ "critic_evaluation" \in DOMAIN p
    /\ p.critic_evaluation = ledger[key]
    /\ p.critic_rank = ledger[key].overall_score
    /\ p.critic_action = ledger[key].recommended_action

\* C29: when evaluate_papers has ingested a payload that answers the
\* snapshot of the store, one evaluation per paper under the title the
\* snapshot gave, the report generated next joins every paper it retains to
\* a ledger entry: the record carries that entry, the entry's composite score
\* as its rank and the entry's recommended action as its action, and no
\* rendered paper is without evaluation.
C29_RoundTripJoins ==
    [][(/\ op = "evaluate_papers"
        /\ ret.kind = "ok"
        /\ AnswersSnapshot(arg, papers)
        /\ op' \in {"generate_report", "generate_html_report"})
       => /\ ret'.kind = "generated"
          /\ \A i \in Retained(papers) :
               JoinedTo(papers'[i], evals, ComposerKey(papers[i].title))
          /\ \A k \in 1..Len(ret'.rendered) :
               /\ "critic_evaluation" \in DOMAIN ret'.rendered[k]
               /\ ret'.rendered[k].critic_rank
                      = ret'.rendered[k].critic_evaluation.overall_score
               /\ ret'.rendered[k].critic_action # "exclude"
      ]_vars

\* a report after a round trip over "a", "a-" and " A": " A" was dropped as a
\* duplicate of "a", both remaining papers are joined, one was excluded
C29_Witness ==
    /\ IsReport
    /\ ret.kind = "generated"
    /\ Len(papers0) = 3
    /\ Len(Rendered) = 1
    /\ ExcludedReported = 1
    /\ \A i \in Retained(papers0) : "critic_evaluation" \in DOMAIN papers[i]
    /\ \E i \in 1..3 : papers0[i].title = <<"a", "-">>
    /\ DOMAIN evals = {<<"a">>, <<"a", "-">>}

(***************************************************************************)
(* Properties of repeated report generation.                               *)
(***************************************************************************)
\* what a tool call came to, the name of the file apart
Outcome(returned) ==
    IF returned.kind = "generated"
    THEN [kind |-> "generated", rendered |-> returned.rendered,
          excluded |-> Get(returned, "excluded", 0)]
    ELSE [kind |-> returned.kind]

\* what the composition c comes to
OutcomeOf(c) ==
    IF c.raised THEN [kind |-> "raise"]
    ELSE [kind |-> "generated", rendered |-> c.included_papers,
          excluded |-> c.excluded_count]

\* C30: a report tool called right after a report tool, the same or the
\* other, comes to what the first call came to, which is what either composer
\* makes of the state the first call started in: the same papers rendered in
\* the same order with the same critic fields, and the same excluded count
\* (or both calls raise, or both report the empty collection); the second
\* call leaves store and ledger as the first left them.
C30_ReportsRepeatable ==
    [][(IsReport /\ op' \in {"generate_report", "generate_html_report"}) =>
          /\ Outcome(ret') = Outcome(ret)
          /\ papers' = papers
          /\ evals' = evals
          /\ papers0 # << >> =>
                /\ Outcome(ret') = OutcomeOf(PdfCompose(papers0, evals0))
                /\ Outcome(ret') = OutcomeOf(HtmlCompose(papers0, evals0))
      ]_vars

\* both files are written and the last call, the second at least on a store
\* that carried the critic fields already, rendered two papers, the first of
\* them joined at 4.8 and the second a join-miss, and counted one excluded
C30_Witness ==
    /\ IsReport
    /\ files = {PdfFile, HtmlFile}
    /\ files0 = files
    /\ papers0 = papers
    /\ ret.kind = "generated"
    /\ Len(ret.rendered) = 2
    /\ ret.rendered[1].critic_rank = 480
    /\ "critic_evaluation" \notin DOMAIN ret.rendered[2]
    /\ ExcludedReported = 1

====
